---- MODULE Spec2Model ----
(***************************************************************************)
(* Model of the abk_aia workflow coordinator (src/src/aia) acting on the   *)
(* work items of a repository through a provider backend.                  *)
(*                                                                         *)
(* The remote system (issue labels, project board column, pull requests,   *)
(* comments) and the local git repository (branches) are the state.  Every *)
(* coordinator operation is one action; the outcome of every               *)
(* subprocess.run it makes is an input of the action.                      *)
(*                                                                         *)
(* Spec follows one work item through the transition operations.           *)
(* ModelSpec applies the methods of models.Issue to label lists.           *)
(* ReadSpec applies the listing operations to the issues of a repository.  *)
(* TriggerSpec runs the trigger operations on the issues of a repository.  *)
(* FactorySpec builds managers and coordinators from provider names.       *)
(* BackendSpec calls the methods of one manager on one work item.          *)
(* TitleSpec derives the short name of issues from their titles.           *)
(* PipelineSpec runs the four stages of the pipeline on one work item.     *)
(***************************************************************************)
EXTENDS Integers, Sequences, FiniteSets, TLC

VARIABLES
    provider,     \* which manager serves the coordinator (self.managers)
    config,       \* WorkflowConfig
    title,        \* the work item's title, a sequence of characters
    labels,       \* the work item's labels on the remote, in provider order
    boardStatus,  \* the column of the project board holding the item
    branches,     \* branches created in the local repository
    prs,          \* pull requests created on the remote, oldest first
    lastOp,       \* the coordinator operation that ran last, with its arguments
    fetched,      \* what its get_issue returned: <<>> (None) or <<issue>>
    calls,        \* the manager calls it issued after the fetch, in order
    cmds,         \* the subprocess commands those calls ran, in order
    result,       \* the GitOperation it returned
    nops,         \* how many transition operations have run
    failures,     \* how many retried operations had a command fail
    runs,         \* the operations two coordinators have under way
    repo,         \* the issues `gh issue list` reports, in provider order
    comments,     \* the progress comments posted on pull requests
    answer,       \* what the last listing operation or Issue method returned
    providerName, \* the provider name given to the factory, a sequence of characters
    manager,      \* what the last create_manager returned: <<>> or <<manager>>
    git,          \* the commits made in the local repository and the branches pushed
    managers,     \* the managers of the coordinator last constructed: <<>> or <<dict>>
    raised        \* the exception the last operation let out, NoException if none

vars == <<provider, config, title, labels, boardStatus, branches, prs,
          lastOp, fetched, calls, cmds, result, nops, failures, runs, repo,
          comments, answer, providerName, manager, git, managers, raised>>

-----------------------------------------------------------------------------
(* Bounds *)

\* coordinator operations run in one behaviour
MaxOps == 2

\* labels on the issue whose methods ModelSpec applies
MaxLabels == 3

\* issues in the repository of ReadSpec and TriggerSpec
MaxIssues == 2

\* the titles of TitleSpec have up to MaxTitleLen characters of their own
MaxTitleLen == 3

-----------------------------------------------------------------------------
(* Values *)

\* Python's None where the other values are strings
None == "None"

\* models.py WorkflowStatus
TODO == "ToDo"
DOING == "Doing"
REVIEW == "Review"
TESTING == "Testing"
DONE == "Done"
WorkflowStatus == {TODO, DOING, REVIEW, TESTING, DONE}

\* WorkflowStatus.<member>.value, in pieces: the emoji, named by its code
\* point, a space, and the name of the column
Value(status) ==
    << CASE status = TODO -> "U+1F4CB"
         [] status = DOING -> "U+1F504"
         [] status = REVIEW -> "U+1F440"
         [] status = TESTING -> "U+1F9EA"
         [] status = DONE -> "U+2705",
       " ", status >>

\* git_aia_manager.py AiaType
AI_CODER == "ai-coder"
AI_MARKETEER == "ai-marketeer"
AI_REVIEWER == "ai-reviewer"
AI_RESEARCHER == "ai-researcher"
AI_TESTER == "ai-tester"
AiaType == {AI_CODER, AI_MARKETEER, AI_REVIEWER, AI_RESEARCHER, AI_TESTER}

\* A label is a record: kind "assigned" with the text after "assigned:" in
\* name, or kind "plain" with the whole label in name.
AssignedLabel(role) == [kind |-> "assigned", name |-> role]
PlainLabel(name) == [kind |-> "plain", name |-> name]

\* f"assigned:{ai_type.value}"
AssignedLabelFor(ai_type) == AssignedLabel(ai_type)

\* str.startswith("ai-") on the texts the labels of the model carry after
\* "assigned:": the AiaType values and "ai-helper" start with "ai-", "human"
\* does not
StartsWithAi(name) == name \in AiaType \cup {"ai-helper"}

\* label.startswith("assigned:ai-")
StartsWithAssignedAi(label) == label.kind = "assigned" /\ StartsWithAi(label.name)

\* the number of the work item of the repository, and a number no item has
ItemNumber == 123
MissingNumber == 999
IssueNumbers == {ItemNumber, MissingNumber}

\* stderr of a failed subprocess
Stderr == {"API Error"}
\* outcome of one subprocess.run(check=True): "ok" or CalledProcessError(stderr)
Outcome == {"ok"} \cup Stderr

-----------------------------------------------------------------------------
(* models.py: Issue, WorkflowConfig, GitOperation *)

\* Characters are one-character strings; these are the classes of the
\* characters the model's titles are made of.
AsciiLower == {"a", "b", "c", "d", "e", "f", "g", "h", "i", "k", "l", "n", "o",
               "p", "r", "s", "t", "u", "v", "x"}
AsciiUpper == {"B", "C", "E", "F", "G", "H", "I", "K", "L", "T", "U"}
Digits == {"1", "2"}
Spaces == {" ", "\t"}

\* letters outside ASCII, named by their code points: E acute, capital and small
NonAsciiUpper == {"U+00C9"}
NonAsciiLower == {"U+00E9"}

\* str.isalnum and str.isspace on one character
IsAlnum(c) ==
    c \in AsciiLower \cup AsciiUpper \cup Digits \cup NonAsciiUpper \cup NonAsciiLower
IsSpace(c) == c \in Spaces

\* str.lower on one character
LowerChar(c) ==
    CASE c = "B" -> "b"
      [] c = "C" -> "c"
      [] c = "E" -> "e"
      [] c = "F" -> "f"
      [] c = "G" -> "g"
      [] c = "H" -> "h"
      [] c = "I" -> "i"
      [] c = "K" -> "k"
      [] c = "L" -> "l"
      [] c = "T" -> "t"
      [] c = "U" -> "u"
      [] c = "U+00C9" -> "U+00E9"
      [] OTHER -> c

\* str.lower
Lower(s) == [i \in 1..Len(s) |-> LowerChar(s[i])]

\* str.replace(" ", "-") on one character
SpaceToHyphen(c) == IF c = " " THEN "-" ELSE c

\* str.rstrip("-")
RECURSIVE RStripHyphen(_)
RStripHyphen(s) ==
    IF s /= <<>> /\ s[Len(s)] = "-" THEN RStripHyphen(SubSeq(s, 1, Len(s) - 1))
    ELSE s

\* Issue.get_short_name truncates to this many characters
ShortNameLimit == 30

\* Issue.get_short_name
GetShortName(t) ==
    LET kept == SelectSeq(t, LAMBDA c : IsAlnum(c) \/ IsSpace(c))
        short_name == [i \in 1..Len(kept) |-> LowerChar(SpaceToHyphen(kept[i]))]
    IN  IF Len(short_name) > ShortNameLimit
        THEN RStripHyphen(SubSeq(short_name, 1, ShortNameLimit))
        ELSE short_name

\* Issue: the fields the coordinator and the managers read
Issue(number, t, ls, project_status) ==
    [number |-> number, title |-> t, labels |-> ls,
     project_status |-> project_status]

\* (mutant) get_assigned_ai returning the last match
RECURSIVE GetAssignedAiLast(_)
GetAssignedAiLast(ls) ==
    IF ls = <<>> THEN None
    ELSE IF StartsWithAssignedAi(ls[Len(ls)]) THEN ls[Len(ls)].name
    ELSE GetAssignedAiLast(SubSeq(ls, 1, Len(ls) - 1))

\* Issue.get_assigned_ai: the role of the first "assigned:ai-" label, or None
RECURSIVE GetAssignedAi(_)
GetAssignedAi(ls) ==
    IF ls = <<>> THEN None
    ELSE IF StartsWithAssignedAi(Head(ls)) THEN Head(ls).name
    ELSE GetAssignedAi(Tail(ls))

\* (mutant) is_assigned_to_ai looking for "assigned:" alone
IsAssignedToAiAnyAssigned(ls) == \E i \in 1..Len(ls) : ls[i].kind = "assigned"

\* Issue.is_assigned_to_ai
IsAssignedToAi(ls) == \E i \in 1..Len(ls) : StartsWithAssignedAi(ls[i])

\* WorkflowConfig.project_number is <<>> (None) or <<n>>; `if project_number:`
ProjectNumberConfigured(cfg) ==
    cfg.project_number /= <<>> /\ cfg.project_number[1] /= 0

\* A message is its format string, the number and the text put into it.
Message(format, number, text) ==
    [format |-> format, number |-> number, text |-> text]

\* A branch name {prefix}/{number}/{short_name}
BranchName(prefix, number, short_name) ==
    [prefix |-> prefix, number |-> number, short_name |-> short_name]
NoBranch == BranchName(None, 0, <<>>)

\* GitOperation.output: None, a branch name, or the stdout of a command
NoOutput == [kind |-> None, branch |-> NoBranch]
BranchOutput(b) == [kind |-> "branch", branch |-> b]
StdoutOutput == [kind |-> "stdout", branch |-> NoBranch]

\* GitOperation
GitOperation(success, message, output, error) ==
    [success |-> success, message |-> message, output |-> output,
     error |-> error]

-----------------------------------------------------------------------------
(* git_aia_manager.py: AiaManagerBase and GitHubAiaManager *)

\* GitBranchType
BUG == "B"
DOCUMENTATION == "D"
FEATURE == "F"
RESEARCH == "R"
TEST == "T"

\* the names of the type labels
TypeLabels == {"bug", "documentation", "feature", "research", "test"}

\* the match statement of _get_branch_type_from_labels
BranchTypeOf(type_label) ==
    CASE type_label = "bug" -> BUG
      [] type_label = "documentation" -> DOCUMENTATION
      [] type_label = "feature" -> FEATURE
      [] type_label = "research" -> RESEARCH
      [] type_label = "test" -> TEST

\* (mutant) _get_branch_type_from_labels returning its default for every issue
GetBranchTypeFromLabelsDefault(ls) == {FEATURE}

\* AiaManagerBase._get_branch_type_from_labels: the branch types it can
\* return.  found_types.pop() takes an arbitrary member of the intersection,
\* so with several type labels any of them can be the one.
GetBranchTypeFromLabels(ls) ==
    LET labels_set == {ls[i].name : i \in {j \in 1..Len(ls) : ls[j].kind = "plain"}}
        found_types == TypeLabels \cap labels_set
    IN  IF found_types /= {}
        THEN {BranchTypeOf(type_label) : type_label \in found_types}
        ELSE {FEATURE}

\* (mutant) a branch name made of the raw title
GenerateBranchNameRawTitle(issue, branch_type) ==
    BranchName(branch_type, issue.number, issue.title)

\* AiaManagerBase.generate_branch_name, with the branch type that was popped
GenerateBranchName(issue, branch_type) ==
    BranchName(branch_type, issue.number, GetShortName(issue.title))

\* The state the managers act on, as one record: the remote's labels, board
\* column and pull requests, the local branches, and the commands run so far.
World ==
    [number |-> ItemNumber, title |-> title, labels |-> labels,
     boardStatus |-> boardStatus, branches |-> branches, prs |-> prs,
     calls |-> <<>>, cmds |-> <<>>]

\* the same for a repository of issues: the issues, the branches, the pull
\* requests and the comments
ListWorld ==
    [repo |-> repo, branches |-> branches, prs |-> prs, comments |-> comments,
     calls |-> <<>>, cmds |-> <<>>]

\* the state an operation on the k-th issue of the repository acts on
ItemWorld(lw, k) ==
    [number |-> lw.repo[k].number, title |-> lw.repo[k].title,
     labels |-> lw.repo[k].labels, boardStatus |-> lw.repo[k].status,
     branches |-> lw.branches, prs |-> lw.prs, calls |-> lw.calls, cmds |-> lw.cmds]

\* the repository after that operation left w
WithItem(lw, k, w) ==
    [lw EXCEPT !.repo[k].labels = w.labels, !.repo[k].status = w.boardStatus,
               !.branches = w.branches, !.prs = w.prs, !.calls = w.calls,
               !.cmds = w.cmds]

\* the text of a label, in pieces
LabelText(label) ==
    IF label.kind = "assigned" THEN <<"assigned:", label.name>> ELSE <<label.name>>

\* one subprocess.run: the command, the text it carries (in pieces), how it ended
Cmd(command, text, oc) == [command |-> command, text |-> text, ok |-> oc = "ok"]

\* what a manager method leaves: the state and the GitOperation it returns
Ret(w, res) == [w |-> w, res |-> res]

\* GitHubAiaManager._parse_issue_data: builds the Issue from the fields of
\* `gh issue list/view --json ...`; project_status is not among them and is
\* left at its default, None
ParseIssueData(issue_data) ==
    Issue(issue_data.number, issue_data.title, issue_data.labels, None)

\* The Issue of a manager that reports the board column of the item, as the
\* issues the tests' managers return do (project_status=WorkflowStatus.TODO)
BoardIssue(issue_data) ==
    Issue(issue_data.number, issue_data.title, issue_data.labels,
          issue_data.status)

\* what the remote holds about the work item
IssueData(w) ==
    [number |-> w.number, title |-> w.title, labels |-> w.labels,
     status |-> w.boardStatus]

\* get_issue: None (<<>>) when `gh issue view` fails, as it does for a number
\* no issue has
GetIssue(w, issue_number, oc) ==
    IF issue_number /= w.number \/ oc /= "ok" THEN <<>>
    ELSE IF provider = "github" THEN <<ParseIssueData(IssueData(w))>>
    ELSE <<BoardIssue(IssueData(w))>>

\* (mutant) update_issue_status running the command whatever the config says
UpdateIssueStatusUnconfigured(w, issue, new_status, oc) ==
    LET ran == [w EXCEPT !.cmds = Append(@, Cmd("gh project item-edit", Value(new_status), oc))]
    IN  IF oc = "ok"
        THEN Ret([ran EXCEPT !.boardStatus = new_status],
                 GitOperation(TRUE, Message("Updated issue {} status to {}", issue.number, new_status),
                              NoOutput, None))
        ELSE Ret(ran, GitOperation(FALSE, Message("Error updating issue status: {}", 0, oc),
                                   NoOutput, oc))

\* GitHubAiaManager.update_issue_status
UpdateIssueStatus(w, issue, new_status, oc) ==
    IF ProjectNumberConfigured(config)
    THEN LET ran == [w EXCEPT !.cmds = Append(@, Cmd("gh project item-edit", Value(new_status), oc))]
         IN  IF oc = "ok"
             THEN Ret([ran EXCEPT !.boardStatus = new_status],
                      GitOperation(TRUE, Message("Updated issue {} status to {}", issue.number, new_status),
                                   NoOutput, None))
             ELSE Ret(ran, GitOperation(FALSE, Message("Error updating issue status: {}", 0, oc),
                                        NoOutput, oc))
    ELSE Ret(w, GitOperation(FALSE, Message("No project number configured", 0, ""), NoOutput, None))

\* the remote's label list after `gh issue edit --add-label`
WithLabel(ls, label) ==
    IF \E i \in 1..Len(ls) : ls[i] = label THEN ls ELSE Append(ls, label)

\* the remote's label list after `gh issue edit --remove-label`
WithoutLabel(ls, label) == SelectSeq(ls, LAMBDA l : l /= label)

\* GitHubAiaManager.add_label_to_issue
AddLabelToIssue(w, issue, label, oc) ==
    LET ran == [w EXCEPT !.cmds = Append(@, Cmd("gh issue edit --add-label", LabelText(label), oc))]
    IN  IF oc = "ok"
        THEN Ret([ran EXCEPT !.labels = WithLabel(@, label)],
                 GitOperation(TRUE, Message("Added label '{}' to issue {}", issue.number, label.name),
                              NoOutput, None))
        ELSE Ret(ran, GitOperation(FALSE, Message("Error adding label: {}", 0, oc), NoOutput, oc))

\* GitHubAiaManager.remove_label_from_issue
RemoveLabelFromIssue(w, issue, label, oc) ==
    LET ran == [w EXCEPT !.cmds = Append(@, Cmd("gh issue edit --remove-label", LabelText(label), oc))]
    IN  IF oc = "ok"
        THEN Ret([ran EXCEPT !.labels = WithoutLabel(@, label)],
                 GitOperation(TRUE, Message("Removed label '{}' from issue {}", issue.number, label.name),
                              NoOutput, None))
        ELSE Ret(ran, GitOperation(FALSE, Message("Error removing label: {}", 0, oc), NoOutput, oc))

\* GitHubAiaManager.create_branch
CreateBranch(w, issue, branch_type, oc) ==
    LET branch_name == GenerateBranchName(issue, branch_type)
        ran == [w EXCEPT !.cmds = Append(@, Cmd("git checkout -b", <<>>, oc))]
    IN  IF oc = "ok"
        THEN Ret([ran EXCEPT !.branches = @ \cup {branch_name}],
                 GitOperation(TRUE, Message("Created branch '{}' for issue {}", issue.number, ""),
                              BranchOutput(branch_name), None))
        ELSE Ret(ran, GitOperation(FALSE, Message("Error creating branch: {}", 0, oc), NoOutput, oc))

\* a pull request: the arguments of `gh pr create`
PullRequest(pr_title, body, head, base) ==
    [title |-> pr_title, body |-> body, head |-> head, base |-> base]
NoPullRequest == PullRequest("", "", NoBranch, "")

\* GitHubAiaManager.create_pr
CreatePr(w, pr_title, body, head, base, oc) ==
    LET ran == [w EXCEPT !.cmds = Append(@, Cmd("gh pr create", <<pr_title>>, oc))]
    IN  IF oc = "ok"
        THEN Ret([ran EXCEPT !.prs = Append(@, PullRequest(pr_title, body, head, base))],
                 GitOperation(TRUE, Message("Created PR: {}", 0, pr_title), StdoutOutput, None))
        ELSE Ret(ran, GitOperation(FALSE, Message("Error creating PR: {}", 0, oc), NoOutput, oc))

\* a comment on a pull request
Comment(pr_number, message) == [pr_number |-> pr_number, message |-> message]

\* GitHubAiaManager.comment_on_pr
CommentOnPr(lw, pr_number, message, oc) ==
    LET ran == [lw EXCEPT !.cmds = Append(@, Cmd("gh pr comment", <<message>>, oc))]
    IN  IF oc = "ok"
        THEN Ret([ran EXCEPT !.comments = @ \cup {Comment(pr_number, message)}],
                 GitOperation(TRUE, Message("Added comment to PR #{}", pr_number, ""),
                              NoOutput, None))
        ELSE Ret(ran, GitOperation(FALSE, Message("Error commenting on PR: {}", 0, oc),
                                   NoOutput, oc))

\* the loop of assign_to_ai over issue.labels[i..]: every "assigned:ai-"
\* label of the fetched issue is removed, and the GitOperation of the removal
\* is dropped; rm[i] is the outcome of the removal of issue.labels[i]
RECURSIVE RemoveAssignedFrom(_, _, _, _)
RemoveAssignedFrom(w, issue, rm, i) ==
    IF i > Len(issue.labels) THEN w
    ELSE IF StartsWithAssignedAi(issue.labels[i])
    THEN RemoveAssignedFrom(RemoveLabelFromIssue(w, issue, issue.labels[i], rm[i]).w,
                            issue, rm, i + 1)
    ELSE RemoveAssignedFrom(w, issue, rm, i + 1)

\* (mutant) assign_to_ai adding the new label beside the ones the item has
AssignToAiKeepOthers(w, issue, ai_type, rm, add) ==
    AddLabelToIssue(w, issue, AssignedLabelFor(ai_type), add)

\* (mutant) assign_to_ai adding the new label before it removes the others
AssignToAiAddFirst(w, issue, ai_type, rm, add) ==
    LET added == AddLabelToIssue(w, issue, AssignedLabelFor(ai_type), add)
    IN  Ret(RemoveAssignedFrom(added.w, issue, rm, 1), added.res)

\* GitHubAiaManager.assign_to_ai
AssignToAi(w, issue, ai_type, rm, add) ==
    LET removed == RemoveAssignedFrom(w, issue, rm, 1)
        new_label == AssignedLabelFor(ai_type)
    IN  AddLabelToIssue(removed, issue, new_label, add)

\* the Issue the manager builds from the data of one issue
IssueOf(issue_data) ==
    IF provider = "github" THEN ParseIssueData(issue_data) ELSE BoardIssue(issue_data)

\* get_issues up to its filter: the issues parsed from the output of
\* `gh issue list`, none when the command fails
ListedIssues(rp, oc) ==
    IF oc /= "ok" THEN <<>> ELSE [i \in 1..Len(rp) |-> IssueOf(rp[i])]

\* (mutant) get_issues letting issues with no board column through a filter
GetIssuesOrAbsent(rp, status, oc) ==
    SelectSeq(ListedIssues(rp, oc),
              LAMBDA issue : status = None \/ issue.project_status \in {status, None})

\* GitHubAiaManager.get_issues
GetIssues(rp, status, oc) ==
    SelectSeq(ListedIssues(rp, oc),
              LAMBDA issue : status = None \/ issue.project_status = status)

\* GitHubAiaManager.get_assigned_issues of the manager of aia_type
GetAssignedIssues(rp, aia_type, oc) ==
    LET all_issues == GetIssues(rp, None, oc)
    IN  SelectSeq(all_issues, LAMBDA issue : GetAssignedAi(issue.labels) = aia_type)

\* GitHubAiaManager.get_issues_in_column
GetIssuesInColumn(rp, column_status, oc) == GetIssues(rp, column_status, oc)

\* (mutant) get_top_priority_todo_issue taking the last issue of the column
GetTopPriorityTodoIssueLast(rp, oc) ==
    LET todo_issues == GetIssuesInColumn(rp, TODO, oc)
    IN  IF todo_issues /= <<>> THEN <<todo_issues[Len(todo_issues)]>> ELSE <<>>

\* GitHubAiaManager.get_top_priority_todo_issue: None (<<>>) or the issue
GetTopPriorityTodoIssue(rp, oc) ==
    LET todo_issues == GetIssuesInColumn(rp, TODO, oc)
    IN  IF todo_issues /= <<>> THEN <<todo_issues[1]>> ELSE <<>>

\* a commit: the files staged for it and its message
Commit(files, message) == [files |-> files, message |-> message]

\* the first command of a run that fails, 0 when none does
FirstFailure(oc) ==
    IF \A i \in 1..Len(oc) : oc[i] = "ok" THEN 0
    ELSE CHOOSE i \in 1..Len(oc) : oc[i] /= "ok" /\ \A j \in 1..(i - 1) : oc[j] = "ok"

\* GitHubAiaManager.create_commit: oc[i] is the outcome of `git add files[i]`
\* and the last of oc the outcome of `git commit`; nothing runs after the
\* first command that fails
CreateCommit(w, branch, files, message, oc) ==
    LET failed == FirstFailure(oc)
        ran == IF failed = 0 THEN Len(files) + 1 ELSE failed
        run == [i \in 1..ran |->
                    IF i <= Len(files) THEN Cmd("git add", <<files[i]>>, oc[i])
                    ELSE Cmd("git commit -m", <<message>>, oc[i])]
        after == [w EXCEPT !.cmds = @ \o run]
    IN  IF failed = 0
        THEN Ret([after EXCEPT !.git.commits = @ \cup {Commit(files, message)}],
                 GitOperation(TRUE, Message("Created commit on branch '{}'", 0, ""),
                              StdoutOutput, None))
        ELSE Ret(after, GitOperation(FALSE, Message("Error creating commit: {}", 0, oc[failed]),
                                     NoOutput, oc[failed]))

\* GitHubAiaManager.push_commit
PushCommit(w, branch, files, message, oc) ==
    LET ran == [w EXCEPT !.cmds = Append(@, Cmd("git push origin", <<>>, oc))]
    IN  IF oc = "ok"
        THEN Ret([ran EXCEPT !.git.pushed = @ \cup {branch}],
                 GitOperation(TRUE, Message("Pushed branch '{}' to remote", 0, ""),
                              StdoutOutput, None))
        ELSE Ret(ran, GitOperation(FALSE, Message("Error pushing branch: {}", 0, oc),
                                   NoOutput, oc))

\* the methods AiaManagerBase declares abstract, which every manager defines
Contract ==
    {"get_issues", "get_issue", "update_issue_status", "add_label_to_issue",
     "remove_label_from_issue", "create_branch", "create_commit", "push_commit",
     "create_pr", "comment_on_pr", "assign_to_ai", "get_assigned_issues"}

\* the methods only GitHubAiaManager defines, which the trigger operations call
BoardMethods == {"get_issues_in_column", "get_top_priority_todo_issue"}

\* the methods an object of a manager class has
MethodsOf(class) ==
    IF class = "GitHubAiaManager" THEN Contract \cup BoardMethods ELSE Contract

\* the message of the NotImplementedError of a placeholder manager
Pending(class) ==
    CASE class = "GitLabAiaManager" -> "GitLab implementation pending"
      [] class = "BitbucketAiaManager" -> "Bitbucket implementation pending"

\* An exception an operation lets out: its class and its message
Exception(exc, format, arg) == [exc |-> exc, format |-> format, arg |-> arg]
NoException == Exception(None, "", <<>>)

\* A manager object: its class, and the role and configuration it is bound to
Manager(class, aia_type, cfg) == [class |-> class, aia_type |-> aia_type, config |-> cfg]

\* what a call returns or raises
Returns(value) == [value |-> <<value>>, raised |-> NoException]
Raises(exc, format, arg) == [value |-> <<>>, raised |-> Exception(exc, format, arg)]

\* AiaManagerFactory.create_manager, which falls through to the last case
CreateManagerDefaultGitHub(provider_name, aia_type, cfg) ==
    LET lower == Lower(provider_name)
    IN  CASE lower = <<"g", "i", "t", "l", "a", "b">> ->
                Returns(Manager("GitLabAiaManager", aia_type, cfg))
          [] lower = <<"b", "i", "t", "b", "u", "c", "k", "e", "t">> ->
                Returns(Manager("BitbucketAiaManager", aia_type, cfg))
          [] OTHER -> Returns(Manager("GitHubAiaManager", aia_type, cfg))

\* AiaManagerFactory.create_manager
CreateManager(provider_name, aia_type, cfg) ==
    LET lower == Lower(provider_name)
    IN  CASE lower = <<"g", "i", "t", "h", "u", "b">> ->
                Returns(Manager("GitHubAiaManager", aia_type, cfg))
          [] lower = <<"g", "i", "t", "l", "a", "b">> ->
                Returns(Manager("GitLabAiaManager", aia_type, cfg))
          [] lower = <<"b", "i", "t", "b", "u", "c", "k", "e", "t">> ->
                Returns(Manager("BitbucketAiaManager", aia_type, cfg))
          [] OTHER -> Raises("ValueError", "Unsupported Git provider: {}", provider_name)

\* subprocess.run either starts the program, or raises FileNotFoundError
\* when the system has no such program
Launch == {"ok", "FileNotFoundError"}

\* A call of a method on a manager of a class.  `done` is what the method of
\* GitHubAiaManager leaves when its commands start: the state, the
\* GitOperation for a writing method, the answer for a reading one.  The
\* methods catch subprocess.CalledProcessError only.
Invoke(class, method, launch, done) ==
    IF method \notin MethodsOf(class)
    THEN Raises("AttributeError", "'{}' object has no attribute '{}'", <<class, method>>)
    ELSE IF class /= "GitHubAiaManager"
    THEN Raises("NotImplementedError", Pending(class), <<>>)
    ELSE IF launch /= "ok" /\ done.w.cmds /= <<>>
    THEN Raises(launch, "[Errno 2] No such file or directory: '{}'",
                <<done.w.cmds[1].command>>)
    ELSE Returns(done)

-----------------------------------------------------------------------------
(* workflow_coordinator.py: WorkflowCoordinator *)

\* the order in which the constructor goes through the roles
AiaTypeOrder == <<AI_CODER, AI_MARKETEER, AI_REVIEWER, AI_RESEARCHER, AI_TESTER>>

\* WorkflowCoordinator.__init__: one manager per role; the first
\* create_manager that raises ends the construction
WorkflowCoordinatorInit(cfg, provider_name) ==
    LET made == [t \in AiaType |-> CreateManager(provider_name, t, cfg)]
        failing == {i \in 1..Len(AiaTypeOrder) : made[AiaTypeOrder[i]].value = <<>>}
    IN  IF failing = {}
        THEN Returns([t \in AiaType |-> made[t].value[1]])
        ELSE [value |-> <<>>,
              raised |-> made[AiaTypeOrder[CHOOSE i \in failing :
                                              \A j \in failing : i <= j]].raised]

\* one call of a manager method by the coordinator: the method, its status,
\* role or label argument (in pieces), its pull-request arguments, and the
\* GitOperation it returned
Call(method, arg, pr, res) == [method |-> method, arg |-> arg, pr |-> pr, res |-> res]

\* the manager call r, entered in the list of the operation's calls
Called(r, method, arg, pr) ==
    Ret([r.w EXCEPT !.calls = Append(@, Call(method, arg, pr, r.res))], r.res)

\* what an operation leaves: the state, its GitOperation, and what it fetched
Done(w, res, got) == [w |-> w, res |-> res, fetched |-> got]

\* (mutant) a guard failure whose message leaves the number out
FailedUnnumbered(format, issue_number) ==
    GitOperation(FALSE, Message(format, 0, ""), NoOutput, None)

\* GitOperation(success=False, message=...) of a guard
Failed(format, issue_number) ==
    GitOperation(FALSE, Message(format, issue_number, ""), NoOutput, None)

\* GitOperation(success=True, message=..., output=...) of a finished operation
Succeeded(format, issue_number, output) ==
    GitOperation(TRUE, Message(format, issue_number, ""), output, None)

\* (mutant) a guard that lets an item through whatever its board column
NotInToDoNever(issue) == FALSE

\* (mutant) a guard that lets an item with no board column through
NotInToDoUnlessAbsent(issue) == issue.project_status \notin {TODO, None}

\* `issue.project_status != WorkflowStatus.TODO` of start_coder_workflow
NotInToDo(issue) == issue.project_status /= TODO

\* (mutant) a guard that only asks for some assignment
NotAssignedToAny(issue, ai_type) == ~IsAssignedToAi(issue.labels)

\* `issue.get_assigned_ai() != <role>.value` of the complete_* operations
NotAssignedTo(issue, ai_type) == GetAssignedAi(issue.labels) /= ai_type

\* (mutant) start_coder_workflow assigning before it moves the item
StartCoderWorkflowAssignFirst(w, issue_number, o) ==
    LET got == GetIssue(w, issue_number, o.get)
    IN  IF got = <<>> THEN Done(w, Failed("Issue {} not found", issue_number), got)
        ELSE LET issue == got[1]
        IN  IF NotInToDo(issue)
            THEN Done(w, Failed("Issue {} is not in ToDo status", issue_number), got)
            ELSE LET r1 == Called(AssignToAi(w, issue, AI_CODER, o.rm, o.add),
                                  "assign_to_ai", <<AI_CODER>>, NoPullRequest)
            IN  IF ~r1.res.success THEN Done(r1.w, r1.res, got)
                ELSE LET r2 == Called(UpdateIssueStatus(r1.w, issue, DOING, o.status),
                                      "update_issue_status", <<DOING>>, NoPullRequest)
                IN  IF ~r2.res.success THEN Done(r2.w, r2.res, got)
                    ELSE LET r3 == Called(CreateBranch(r2.w, issue, o.pop, o.branch),
                                          "create_branch", <<>>, NoPullRequest)
                    IN  IF ~r3.res.success THEN Done(r3.w, r3.res, got)
                        ELSE Done(r3.w,
                                  Succeeded("Started coder workflow for issue {}",
                                            issue_number, r3.res.output),
                                  got)

\* WorkflowCoordinator.start_coder_workflow
StartCoderWorkflow(w, issue_number, o) ==
    LET got == GetIssue(w, issue_number, o.get)
    IN  IF got = <<>> THEN Done(w, Failed("Issue {} not found", issue_number), got)
        ELSE LET issue == got[1]
        IN  IF NotInToDo(issue)
            THEN Done(w, Failed("Issue {} is not in ToDo status", issue_number), got)
            ELSE LET r1 == Called(UpdateIssueStatus(w, issue, DOING, o.status),
                                  "update_issue_status", <<DOING>>, NoPullRequest)
            IN  IF ~r1.res.success THEN Done(r1.w, r1.res, got)
                ELSE LET r2 == Called(AssignToAi(r1.w, issue, AI_CODER, o.rm, o.add),
                                      "assign_to_ai", <<AI_CODER>>, NoPullRequest)
                IN  IF ~r2.res.success THEN Done(r2.w, r2.res, got)
                    ELSE LET r3 == Called(CreateBranch(r2.w, issue, o.pop, o.branch),
                                          "create_branch", <<>>, NoPullRequest)
                    IN  IF ~r3.res.success THEN Done(r3.w, r3.res, got)
                        ELSE Done(r3.w,
                                  Succeeded("Started coder workflow for issue {}",
                                            issue_number, r3.res.output),
                                  got)

\* complete_coder_workflow and complete_reviewer_workflow are the same code
\* but for the role checked, the status written and the role assigned
CompleteAndHandOver(w, issue_number, o, own, new_status, next, format) ==
    LET got == GetIssue(w, issue_number, o.get)
    IN  IF got = <<>> THEN Done(w, Failed("Issue {} not found", issue_number), got)
        ELSE LET issue == got[1]
        IN  IF NotAssignedTo(issue, own)
            THEN Done(w, GitOperation(FALSE, Message("Issue {} is not assigned to {}", issue_number, own),
                                      NoOutput, None), got)
            ELSE LET r1 == Called(UpdateIssueStatus(w, issue, new_status, o.status),
                                  "update_issue_status", <<new_status>>, NoPullRequest)
            IN  IF ~r1.res.success THEN Done(r1.w, r1.res, got)
                ELSE LET r2 == Called(AssignToAi(r1.w, issue, next, o.rm, o.add),
                                      "assign_to_ai", <<next>>, NoPullRequest)
                IN  IF ~r2.res.success THEN Done(r2.w, r2.res, got)
                    ELSE Done(r2.w, Succeeded(format, issue_number, NoOutput), got)

\* WorkflowCoordinator.complete_coder_workflow
CompleteCoderWorkflow(w, issue_number, o) ==
    CompleteAndHandOver(w, issue_number, o, AI_CODER, REVIEW, AI_REVIEWER,
                        "Completed coder workflow for issue {}")

\* WorkflowCoordinator.complete_reviewer_workflow
CompleteReviewerWorkflow(w, issue_number, o) ==
    CompleteAndHandOver(w, issue_number, o, AI_REVIEWER, TESTING, AI_TESTER,
                        "Completed reviewer workflow for issue {}")

\* (mutant) complete_tester_workflow moving the item to Done before it
\* creates the pull request
CompleteTesterWorkflowStatusFirst(w, issue_number, pr_title, pr_body, o) ==
    LET got == GetIssue(w, issue_number, o.get)
    IN  IF got = <<>> THEN Done(w, Failed("Issue {} not found", issue_number), got)
        ELSE LET issue == got[1]
        IN  IF NotAssignedTo(issue, AI_TESTER)
            THEN Done(w, GitOperation(FALSE, Message("Issue {} is not assigned to {}", issue_number, AI_TESTER),
                                      NoOutput, None), got)
            ELSE LET branch_name == GenerateBranchName(issue, o.pop)
                     pr == PullRequest(pr_title, pr_body, branch_name, config.default_base_branch)
                     r1 == Called(UpdateIssueStatus(w, issue, DONE, o.status),
                                  "update_issue_status", <<DONE>>, NoPullRequest)
            IN  IF ~r1.res.success THEN Done(r1.w, r1.res, got)
                ELSE LET r2 == Called(CreatePr(r1.w, pr_title, pr_body, branch_name,
                                               config.default_base_branch, o.pr),
                                      "create_pr", <<>>, pr)
                IN  IF ~r2.res.success THEN Done(r2.w, r2.res, got)
                    ELSE LET r3 == Called(RemoveLabelFromIssue(r2.w, issue, AssignedLabelFor(AI_TESTER), o.unlabel),
                                          "remove_label_from_issue",
                                          LabelText(AssignedLabelFor(AI_TESTER)), NoPullRequest)
                    IN  IF ~r3.res.success THEN Done(r3.w, r3.res, got)
                        ELSE Done(r3.w,
                                  Succeeded("Completed tester workflow for issue {}, PR created",
                                            issue_number, NoOutput),
                                  got)

\* (mutant) complete_tester_workflow taking the pull request back when the
\* status update fails
CompleteTesterWorkflowRollback(w, issue_number, pr_title, pr_body, o) ==
    LET got == GetIssue(w, issue_number, o.get)
    IN  IF got = <<>> THEN Done(w, Failed("Issue {} not found", issue_number), got)
        ELSE LET issue == got[1]
        IN  IF NotAssignedTo(issue, AI_TESTER)
            THEN Done(w, GitOperation(FALSE, Message("Issue {} is not assigned to {}", issue_number, AI_TESTER),
                                      NoOutput, None), got)
            ELSE LET branch_name == GenerateBranchName(issue, o.pop)
                     pr == PullRequest(pr_title, pr_body, branch_name, config.default_base_branch)
                     r1 == Called(CreatePr(w, pr_title, pr_body, branch_name,
                                           config.default_base_branch, o.pr),
                                  "create_pr", <<>>, pr)
            IN  IF ~r1.res.success THEN Done(r1.w, r1.res, got)
                ELSE LET r2 == Called(UpdateIssueStatus(r1.w, issue, DONE, o.status),
                                      "update_issue_status", <<DONE>>, NoPullRequest)
                IN  IF ~r2.res.success THEN Done([r2.w EXCEPT !.prs = w.prs], r2.res, got)
                    ELSE LET r3 == Called(RemoveLabelFromIssue(r2.w, issue, AssignedLabelFor(AI_TESTER), o.unlabel),
                                          "remove_label_from_issue",
                                          LabelText(AssignedLabelFor(AI_TESTER)), NoPullRequest)
                    IN  IF ~r3.res.success THEN Done(r3.w, r3.res, got)
                        ELSE Done(r3.w,
                                  Succeeded("Completed tester workflow for issue {}, PR created",
                                            issue_number, NoOutput),
                                  got)

\* WorkflowCoordinator.complete_tester_workflow
CompleteTesterWorkflow(w, issue_number, pr_title, pr_body, o) ==
    LET got == GetIssue(w, issue_number, o.get)
    IN  IF got = <<>> THEN Done(w, Failed("Issue {} not found", issue_number), got)
        ELSE LET issue == got[1]
        IN  IF NotAssignedTo(issue, AI_TESTER)
            THEN Done(w, GitOperation(FALSE, Message("Issue {} is not assigned to {}", issue_number, AI_TESTER),
                                      NoOutput, None), got)
            ELSE LET branch_name == GenerateBranchName(issue, o.pop)
                     pr == PullRequest(pr_title, pr_body, branch_name, config.default_base_branch)
                     r1 == Called(CreatePr(w, pr_title, pr_body, branch_name,
                                           config.default_base_branch, o.pr),
                                  "create_pr", <<>>, pr)
            IN  IF ~r1.res.success THEN Done(r1.w, r1.res, got)
                ELSE LET r2 == Called(UpdateIssueStatus(r1.w, issue, DONE, o.status),
                                      "update_issue_status", <<DONE>>, NoPullRequest)
                IN  IF ~r2.res.success THEN Done(r2.w, r2.res, got)
                    ELSE LET r3 == Called(RemoveLabelFromIssue(r2.w, issue, AssignedLabelFor(AI_TESTER), o.unlabel),
                                          "remove_label_from_issue",
                                          LabelText(AssignedLabelFor(AI_TESTER)), NoPullRequest)
                    IN  IF ~r3.res.success THEN Done(r3.w, r3.res, got)
                        ELSE Done(r3.w,
                                  Succeeded("Completed tester workflow for issue {}, PR created",
                                            issue_number, NoOutput),
                                  got)

\* (mutant) assign_researcher_to_issue reporting success whatever
\* assign_to_ai returned
AssignResearcherToIssueUnchecked(w, issue_number, o) ==
    LET got == GetIssue(w, issue_number, o.get)
    IN  IF got = <<>> THEN Done(w, Failed("Issue {} not found", issue_number), got)
        ELSE LET issue == got[1]
                 r1 == Called(AssignToAi(w, issue, AI_RESEARCHER, o.rm, o.add),
                              "assign_to_ai", <<AI_RESEARCHER>>, NoPullRequest)
        IN  Done(r1.w, Succeeded("Assigned ai-researcher to issue {}", issue_number, NoOutput), got)

\* WorkflowCoordinator.assign_researcher_to_issue
AssignResearcherToIssue(w, issue_number, o) ==
    LET got == GetIssue(w, issue_number, o.get)
    IN  IF got = <<>> THEN Done(w, Failed("Issue {} not found", issue_number), got)
        ELSE LET issue == got[1]
                 r1 == Called(AssignToAi(w, issue, AI_RESEARCHER, o.rm, o.add),
                              "assign_to_ai", <<AI_RESEARCHER>>, NoPullRequest)
        IN  IF ~r1.res.success THEN Done(r1.w, r1.res, got)
            ELSE Done(r1.w, Succeeded("Assigned ai-researcher to issue {}", issue_number, NoOutput), got)

\* (mutant) complete_research_workflow moving the item to Done as well
CompleteResearchWorkflowMoveDone(w, issue_number, o) ==
    LET got == GetIssue(w, issue_number, o.get)
    IN  IF got = <<>> THEN Done(w, Failed("Issue {} not found", issue_number), got)
        ELSE LET issue == got[1]
        IN  IF NotAssignedTo(issue, AI_RESEARCHER)
            THEN Done(w, GitOperation(FALSE, Message("Issue {} is not assigned to {}", issue_number, AI_RESEARCHER),
                                      NoOutput, None), got)
            ELSE LET r1 == Called(RemoveLabelFromIssue(w, issue, AssignedLabelFor(AI_RESEARCHER), o.unlabel),
                                  "remove_label_from_issue",
                                  LabelText(AssignedLabelFor(AI_RESEARCHER)), NoPullRequest)
                     r2 == Called(UpdateIssueStatus(r1.w, issue, DONE, o.status),
                                  "update_issue_status", <<DONE>>, NoPullRequest)
            IN  IF ~r1.res.success THEN Done(r1.w, r1.res, got)
                ELSE Done(r2.w, Succeeded("Completed research workflow for issue {}", issue_number, NoOutput), got)

\* WorkflowCoordinator.complete_research_workflow
CompleteResearchWorkflow(w, issue_number, o) ==
    LET got == GetIssue(w, issue_number, o.get)
    IN  IF got = <<>> THEN Done(w, Failed("Issue {} not found", issue_number), got)
        ELSE LET issue == got[1]
        IN  IF NotAssignedTo(issue, AI_RESEARCHER)
            THEN Done(w, GitOperation(FALSE, Message("Issue {} is not assigned to {}", issue_number, AI_RESEARCHER),
                                      NoOutput, None), got)
            ELSE LET r1 == Called(RemoveLabelFromIssue(w, issue, AssignedLabelFor(AI_RESEARCHER), o.unlabel),
                                  "remove_label_from_issue",
                                  LabelText(AssignedLabelFor(AI_RESEARCHER)), NoPullRequest)
            IN  IF ~r1.res.success THEN Done(r1.w, r1.res, got)
                ELSE Done(r1.w, Succeeded("Completed research workflow for issue {}", issue_number, NoOutput), got)

\* the result of one stage of simulate_complete_workflow, entered in the list
\* of calls after the manager calls the stage made
Stage(r, method) ==
    Done([r.w EXCEPT !.calls = Append(@, Call(method, <<>>, NoPullRequest, r.res))],
         r.res, r.fetched)

\* the output of simulate_complete_workflow: the lines of its four stages
ResultsOutput == [kind |-> "results", branch |-> NoBranch]

\* (mutant) simulate_complete_workflow reporting success whatever
\* complete_tester_workflow returned
SimulateCompleteWorkflowUncheckedTester(w, issue_number, os) ==
    LET coder_result ==
            Stage(StartCoderWorkflow(w, issue_number, os[1]), "start_coder_workflow")
    IN  IF ~coder_result.res.success THEN coder_result
        ELSE LET complete_coder_result ==
                    Stage(CompleteCoderWorkflow(coder_result.w, issue_number, os[2]),
                          "complete_coder_workflow")
        IN  IF ~complete_coder_result.res.success THEN complete_coder_result
        ELSE LET complete_reviewer_result ==
                    Stage(CompleteReviewerWorkflow(complete_coder_result.w, issue_number, os[3]),
                          "complete_reviewer_workflow")
        IN  IF ~complete_reviewer_result.res.success THEN complete_reviewer_result
            ELSE LET complete_tester_result ==
                        Stage(CompleteTesterWorkflow(complete_reviewer_result.w, issue_number,
                                                     "Implement issue #{}",
                                                     "This PR implements the changes for issue #{}.",
                                                     os[4]),
                              "complete_tester_workflow")
            IN  Done(complete_tester_result.w,
                     GitOperation(TRUE,
                                  Message("Complete workflow simulation completed for issue #{}",
                                          issue_number, ""),
                                  ResultsOutput, None),
                     complete_tester_result.fetched)

\* WorkflowCoordinator.simulate_complete_workflow; os[k] holds the outcomes of
\* the commands of the k-th stage
SimulateCompleteWorkflow(w, issue_number, os) ==
    LET coder_result ==
            Stage(StartCoderWorkflow(w, issue_number, os[1]), "start_coder_workflow")
    IN  IF ~coder_result.res.success THEN coder_result
        ELSE LET complete_coder_result ==
                    Stage(CompleteCoderWorkflow(coder_result.w, issue_number, os[2]),
                          "complete_coder_workflow")
        IN  IF ~complete_coder_result.res.success THEN complete_coder_result
        ELSE LET complete_reviewer_result ==
                    Stage(CompleteReviewerWorkflow(complete_coder_result.w, issue_number, os[3]),
                          "complete_reviewer_workflow")
        IN  IF ~complete_reviewer_result.res.success THEN complete_reviewer_result
            ELSE LET complete_tester_result ==
                        Stage(CompleteTesterWorkflow(complete_reviewer_result.w, issue_number,
                                                     "Implement issue #{}",
                                                     "This PR implements the changes for issue #{}.",
                                                     os[4]),
                              "complete_tester_workflow")
            IN  IF ~complete_tester_result.res.success THEN complete_tester_result
                ELSE Done(complete_tester_result.w,
                          GitOperation(TRUE,
                                       Message("Complete workflow simulation completed for issue #{}",
                                               issue_number, ""),
                                       ResultsOutput, None),
                          complete_tester_result.fetched)

\* GitOperation.output f"issue_{issue.number}": the number is held in the
\* number of a branch-name record that has no prefix and no short name
IssueOutput(number) == [kind |-> "issue_{}", branch |-> BranchName(None, number, <<>>)]

\* what a trigger leaves: the repository, its GitOperation, what the
\* operation it started fetched, and the column it listed
Triggered(lw, res, got, column) ==
    [w |-> lw, res |-> res, fetched |-> got, listed |-> column]

\* `gh issue list` has run
ListedBy(lw, oc) == [lw EXCEPT !.cmds = Append(@, Cmd("gh issue list", <<>>, oc))]

\* the place in the repository of the issue that has this number
PlaceOf(rp, number) == CHOOSE k \in 1..Len(rp) : rp[k].number = number

\* WorkflowCoordinator.trigger_ai_coder.  The title in the message of the
\* success is the title of the issue whose number the message holds.
TriggerAiCoder(lw, o) ==
    LET top_issue == GetTopPriorityTodoIssue(lw.repo, o.list)
        column == GetIssuesInColumn(lw.repo, TODO, o.list)
        listed == ListedBy(lw, o.list)
    IN  IF top_issue = <<>>
        THEN Triggered(listed,
                       GitOperation(FALSE, Message("No ToDo issues available for ai-coder", 0, ""),
                                    NoOutput, None),
                       <<>>, column)
        ELSE LET k == PlaceOf(lw.repo, top_issue[1].number)
                 r == StartCoderWorkflow(ItemWorld(listed, k), top_issue[1].number, o.run)
                 after == WithItem(listed, k, r.w)
             IN  IF ~r.res.success THEN Triggered(after, r.res, r.fetched, column)
                 ELSE Triggered(after,
                                GitOperation(TRUE,
                                    Message("ai-coder started working on issue #{}: {}",
                                            top_issue[1].number, ""),
                                    r.res.output, None),
                                r.fetched, column)

\* trigger_ai_reviewer and trigger_ai_tester are the same code but for the
\* column listed and the texts
TriggerInColumn(lw, o, column_status, empty, comment, started) ==
    LET column == GetIssuesInColumn(lw.repo, column_status, o.list)
        listed == ListedBy(lw, o.list)
    IN  IF column = <<>>
        THEN Triggered(listed, GitOperation(FALSE, Message(empty, 0, ""), NoOutput, None),
                       <<>>, column)
        ELSE LET issue == column[1]
                 r1 == Called(CommentOnPr(listed, issue.number, comment, o.comment),
                              "comment_on_pr", <<comment>>, NoPullRequest)
             IN  Triggered(r1.w,
                           GitOperation(TRUE, Message(started, issue.number, ""),
                                        IssueOutput(issue.number), None),
                           <<>>, column)

\* (mutant) trigger_ai_reviewer taking the issue for ai-reviewer as well
TriggerAiReviewerAssigning(lw, o) ==
    LET r == TriggerInColumn(lw, o, REVIEW, "No issues in Review column for ai-reviewer",
                             "ai-reviewer started reviewing this issue...",
                             "ai-reviewer started reviewing issue #{}: {}")
    IN  IF r.listed = <<>> THEN r
        ELSE LET k == PlaceOf(lw.repo, r.listed[1].number)
                 a == AssignToAi(ItemWorld(r.w, k), r.listed[1], AI_REVIEWER,
                                 [i \in 1..Len(r.listed[1].labels) |-> "ok"], "ok")
             IN  [r EXCEPT !.w = WithItem(r.w, k, a.w)]

\* WorkflowCoordinator.trigger_ai_reviewer
TriggerAiReviewer(lw, o) ==
    TriggerInColumn(lw, o, REVIEW, "No issues in Review column for ai-reviewer",
                    "ai-reviewer started reviewing this issue...",
                    "ai-reviewer started reviewing issue #{}: {}")

\* WorkflowCoordinator.trigger_ai_tester
TriggerAiTester(lw, o) ==
    TriggerInColumn(lw, o, TESTING, "No issues in Testing column for ai-tester",
                    "ai-tester started testing this issue...",
                    "ai-tester started testing issue #{}: {}")

\* (mutant) get_issues_for_ai returning every issue of the column
GetIssuesForAiWholeColumn(rp, ai_type, status, oc) ==
    IF status /= None
    THEN GetIssues(rp, status, oc)
    ELSE GetAssignedIssues(rp, ai_type, oc)

\* WorkflowCoordinator.get_issues_for_ai; `if status:` is false for None only
GetIssuesForAi(rp, ai_type, status, oc) ==
    IF status /= None
    THEN LET all_issues == GetIssues(rp, status, oc)
         IN  SelectSeq(all_issues, LAMBDA issue : GetAssignedAi(issue.labels) = ai_type)
    ELSE GetAssignedIssues(rp, ai_type, oc)

\* (mutant) get_todo_issues leaving out only the issues of ai-coder
GetTodoIssuesNotCoders(rp, oc) ==
    LET todo_issues == GetIssues(rp, TODO, oc)
    IN  SelectSeq(todo_issues, LAMBDA issue : GetAssignedAi(issue.labels) /= AI_CODER)

\* WorkflowCoordinator.get_todo_issues
GetTodoIssues(rp, oc) ==
    LET todo_issues == GetIssues(rp, TODO, oc)
    IN  SelectSeq(todo_issues, LAMBDA issue : ~IsAssignedToAi(issue.labels))

\* (mutant) the counting loop putting issues with no board column under ToDo
RECURSIVE CountStatusesAbsentAsToDo(_, _)
CountStatusesAbsentAsToDo(all_issues, status_counts) ==
    IF all_issues = <<>> THEN status_counts
    ELSE LET issue == Head(all_issues)
             s == IF issue.project_status /= None THEN issue.project_status ELSE TODO
         IN  CountStatusesAbsentAsToDo(Tail(all_issues), [status_counts EXCEPT ![s] = @ + 1])

\* the loop of get_workflow_status over all_issues
RECURSIVE CountStatuses(_, _)
CountStatuses(all_issues, status_counts) ==
    IF all_issues = <<>> THEN status_counts
    ELSE LET issue == Head(all_issues)
         IN  CountStatuses(Tail(all_issues),
                           IF issue.project_status /= None
                           THEN [status_counts EXCEPT ![issue.project_status] = @ + 1]
                           ELSE status_counts)

\* WorkflowCoordinator.get_workflow_status
GetWorkflowStatus(rp, oc) ==
    LET all_issues == GetIssues(rp, None, oc)
    IN  CountStatuses(all_issues, [status \in WorkflowStatus |-> 0])

-----------------------------------------------------------------------------
(* The state machine *)

\* the title of the work item: "Fix UI: 2 bu"
ItemTitles == {<<"F", "i", "x", " ", "U", "I", ":", " ", "2", " ", "b", "u">>}

\* the label lists the work item can start with
InitLabels ==
    { <<>>,
      <<PlainLabel("feature"), PlainLabel("priority:high")>>,
      <<AssignedLabel(AI_CODER)>>,
      <<AssignedLabel(AI_REVIEWER), PlainLabel("bug")>>,
      <<AssignedLabel(AI_TESTER), PlainLabel("feature")>>,
      <<PlainLabel("bug"), AssignedLabel(AI_TESTER), PlainLabel("test")>>,
      <<AssignedLabel(AI_RESEARCHER), PlainLabel("feature")>>,
      <<AssignedLabel(AI_RESEARCHER), AssignedLabel(AI_CODER)>> }

\* the providers: GitHubAiaManager, and a manager whose issues carry the
\* board column
Providers == {"github", "board"}

\* WorkflowConfig: project_number is None, 0 or 1; default_base_branch is
\* "main" unless the caller sets it
Configs ==
    {[project_number |-> pn, default_base_branch |-> "main"] : pn \in {<<>>, <<0>>, <<1>>}}
    \cup {[project_number |-> <<1>>, default_base_branch |-> "develop"]}

\* the pull request title and body a caller passes to complete_tester_workflow
PrTitles == {"PR Title"}
PrBodies == {"PR Body"}

\* the local repository: the commits made, and the branches pushed to origin
Git(commits, pushed) == [commits |-> commits, pushed |-> pushed]
NoGit == Git({}, {})

\* what a listing operation or an Issue method returns: a list of issues,
\* the dictionary of get_workflow_status, a role or None, or a bool
Answer(issues, counts, role, flag) ==
    [issues |-> issues, counts |-> counts, role |-> role, flag |-> flag,
     short_name |-> <<>>]
NoAnswer == Answer(<<>>, <<>>, None, FALSE)

\* an operation and its arguments
Op(name, issue_number, pr_title, pr_body) ==
    [name |-> name, issue_number |-> issue_number, pr_title |-> pr_title,
     pr_body |-> pr_body, ai_type |-> None, status |-> None, arg |-> <<>>]

\* a listing operation and its arguments
Query(name, ai_type, status) ==
    [Op(name, 0, "", "") EXCEPT !.ai_type = ai_type, !.status = status]

Init ==
    /\ provider \in Providers
    /\ config \in Configs
    /\ title \in ItemTitles
    /\ labels \in InitLabels
    /\ boardStatus \in WorkflowStatus \cup {None}
    /\ branches = {}
    /\ prs = <<>>
    /\ lastOp = Op("__init__", 0, "", "")
    /\ fetched = <<>>
    /\ calls = <<>>
    /\ cmds = <<>>
    /\ result = GitOperation(TRUE, Message("", 0, ""), NoOutput, None)
    /\ nops = 0
    /\ failures = 0
    /\ runs = <<>>
    /\ repo = <<>>
    /\ comments = {}
    /\ answer = NoAnswer
    /\ providerName = <<>>
    /\ manager = <<>>
    /\ git = NoGit
    /\ managers = <<>>
    /\ raised = NoException

\* The outcomes of the subprocesses an operation runs.  `order` lists the
\* manager calls of the operation in the order it makes them; the operation
\* stops at the first one that fails, so the commands after it never run and
\* have no outcome: either every call succeeds or order[k] fails with some
\* stderr.  rm[i] is the outcome of the removal of the i-th label inside
\* assign_to_ai, which does not stop the operation; pop is the branch type
\* _get_branch_type_from_labels pops, which an operation that derives no
\* branch name never asks for.
OutcomesOn(ls, order) ==
    LET Fails(k, e) == [f \in {"get", "status", "add", "branch", "pr", "unlabel"} |->
                            IF k \in 1..Len(order) /\ f = order[k] THEN e ELSE "ok"]
        Runs == {Fails(0, "ok")} \cup {Fails(k, e) : k \in 1..Len(order), e \in Stderr}
        Assigns == \E k \in 1..Len(order) : order[k] = "add"
        Removals == {r \in [1..Len(ls) -> Outcome] :
                        \A i \in 1..Len(ls) :
                            r[i] /= "ok" => Assigns /\ StartsWithAssignedAi(ls[i])}
        Names == \E k \in 1..Len(order) : order[k] \in {"branch", "pr"}
        Popped == IF Names THEN GetBranchTypeFromLabels(ls)
                  ELSE {CHOOSE t \in GetBranchTypeFromLabels(ls) : TRUE}
    IN  { [get |-> x.get, status |-> x.status, rm |-> r, add |-> x.add,
           branch |-> x.branch, pr |-> x.pr, unlabel |-> x.unlabel, pop |-> t] :
            x \in Runs,
            r \in Removals,
            t \in Popped }

\* the outcomes of an operation on the work item
Outcomes(order) == OutcomesOn(labels, order)

\* another operation can run
CanRun == nops < MaxOps

\* the operation `op` has run and left r
Apply(op, r) ==
    /\ labels' = r.w.labels
    /\ boardStatus' = r.w.boardStatus
    /\ branches' = r.w.branches
    /\ prs' = r.w.prs
    /\ calls' = r.w.calls
    /\ cmds' = r.w.cmds
    /\ fetched' = r.fetched
    /\ result' = r.res
    /\ lastOp' = op
    /\ nops' = nops + 1
    /\ UNCHANGED <<failures, runs>>
    /\ UNCHANGED <<provider, config, title, repo, comments, answer, providerName,
                   manager, git, managers, raised>>

StartCoder ==
    /\ CanRun
    /\ \E n \in IssueNumbers, o \in Outcomes(<<"get", "status", "add", "branch">>) :
        Apply(Op("start_coder_workflow", n, "", ""), StartCoderWorkflow(World, n, o))

CompleteCoder ==
    /\ CanRun
    /\ \E n \in IssueNumbers, o \in Outcomes(<<"get", "status", "add">>) :
        Apply(Op("complete_coder_workflow", n, "", ""), CompleteCoderWorkflow(World, n, o))

CompleteReviewer ==
    /\ CanRun
    /\ \E n \in IssueNumbers, o \in Outcomes(<<"get", "status", "add">>) :
        Apply(Op("complete_reviewer_workflow", n, "", ""), CompleteReviewerWorkflow(World, n, o))

CompleteTester ==
    /\ CanRun
    /\ \E n \in IssueNumbers, t \in PrTitles, b \in PrBodies,
       o \in Outcomes(<<"get", "pr", "status", "unlabel">>) :
        Apply(Op("complete_tester_workflow", n, t, b), CompleteTesterWorkflow(World, n, t, b, o))

AssignResearcher ==
    /\ CanRun
    /\ \E n \in IssueNumbers, o \in Outcomes(<<"get", "add">>) :
        Apply(Op("assign_researcher_to_issue", n, "", ""), AssignResearcherToIssue(World, n, o))

CompleteResearch ==
    /\ CanRun
    /\ \E n \in IssueNumbers, o \in Outcomes(<<"get", "unlabel">>) :
        Apply(Op("complete_research_workflow", n, "", ""), CompleteResearchWorkflow(World, n, o))

Next ==
    \/ StartCoder
    \/ CompleteCoder
    \/ CompleteReviewer
    \/ CompleteTester
    \/ AssignResearcher
    \/ CompleteResearch

Spec == Init /\ [][Next]_vars

-----------------------------------------------------------------------------
(* The methods of models.Issue on the label lists an issue can carry *)

\* nothing has run: no operation, no call, no command, no answer
Idle ==
    /\ branches = {}
    /\ prs = <<>>
    /\ lastOp = Op("__init__", 0, "", "")
    /\ fetched = <<>>
    /\ calls = <<>>
    /\ cmds = <<>>
    /\ result = GitOperation(TRUE, Message("", 0, ""), NoOutput, None)
    /\ nops = 0
    /\ failures = 0
    /\ runs = <<>>
    /\ comments = {}
    /\ answer = NoAnswer
    /\ manager = <<>>
    /\ git = NoGit
    /\ managers = <<>>
    /\ raised = NoException

\* the labels an issue can carry: assignment labels of two roles, two other
\* labels that begin with "assigned:", and two labels that do not
LabelAlphabet ==
    { AssignedLabel(AI_CODER), AssignedLabel(AI_RESEARCHER),
      AssignedLabel("ai-helper"), AssignedLabel("human"),
      PlainLabel("feature"), PlainLabel("unassigned:ai-coder") }

\* Issue.labels: list[str]
LabelLists == UNION {[1..n -> LabelAlphabet] : n \in 0..MaxLabels}

ModelInit ==
    /\ providerName = <<>>
    /\ provider = "github"
    /\ config = [project_number |-> <<1>>, default_base_branch |-> "main"]
    /\ title \in ItemTitles
    /\ labels \in LabelLists
    /\ boardStatus = None
    /\ repo = <<>>
    /\ Idle

\* the Issue method `name` has returned `a`
Returned(name, a) ==
    /\ lastOp' = Op(name, 0, "", "")
    /\ answer' = a
    /\ UNCHANGED <<provider, config, title, labels, boardStatus, branches, prs,
                   fetched, calls, cmds, result, nops, failures, runs, repo, comments,
                   providerName, manager, git, managers, raised>>

IssueGetAssignedAi ==
    Returned("get_assigned_ai", Answer(<<>>, <<>>, GetAssignedAi(labels), FALSE))

IssueIsAssignedToAi ==
    Returned("is_assigned_to_ai", Answer(<<>>, <<>>, None, IsAssignedToAi(labels)))

ModelNext ==
    \/ IssueGetAssignedAi
    \/ IssueIsAssignedToAi

ModelSpec == ModelInit /\ [][ModelNext]_vars

-----------------------------------------------------------------------------
(* The listing operations on the issues of a repository *)

\* the labels and the board column of one issue of the repository
Kind(ls, status) == [labels |-> ls, status |-> status]

\* an issue of the repository is of one of these kinds: in every column or
\* in none, unassigned, assigned to one role, or labelled for two
RepoKinds ==
    LET unassigned == <<>>
        coder == <<AssignedLabel(AI_CODER), PlainLabel("feature")>>
        reviewer == <<AssignedLabel(AI_REVIEWER), AssignedLabel(AI_CODER)>>
        tester == <<PlainLabel("bug"), AssignedLabel(AI_TESTER)>>
    IN  { Kind(unassigned, None), Kind(coder, None),
          Kind(unassigned, TODO), Kind(coder, TODO), Kind(reviewer, TODO),
          Kind(coder, DOING),
          Kind(unassigned, REVIEW), Kind(reviewer, REVIEW),
          Kind(tester, TESTING),
          Kind(unassigned, DONE) }

\* the issues `gh issue list` reports, newest first, for a list of kinds
RepoOf(t, kinds) ==
    [i \in 1..Len(kinds) |->
        [number |-> ItemNumber + Len(kinds) - i, title |-> t,
         labels |-> kinds[i].labels, status |-> kinds[i].status]]

\* the repositories of up to MaxIssues issues
Repos(t, kinds) == {RepoOf(t, k) : k \in UNION {[1..n -> kinds] : n \in 0..MaxIssues}}

ReadInit ==
    /\ providerName = <<>>
    /\ provider \in Providers
    /\ config = [project_number |-> <<1>>, default_base_branch |-> "main"]
    /\ title \in ItemTitles
    /\ labels = <<>>
    /\ boardStatus = None
    /\ repo \in Repos(title, RepoKinds)
    /\ Idle

\* the listing operation `op` has run `gh issue list` with outcome oc, the
\* manager's get_issues has returned `got`, and the operation `a`.  A listing
\* leaves the repository as it is: a behaviour of ReadSpec is one listing.
Listed(op, got, a, oc) ==
    /\ lastOp.name = "__init__"
    /\ lastOp' = op
    /\ fetched' = got
    /\ answer' = a
    /\ cmds' = <<Cmd("gh issue list", <<>>, oc)>>
    /\ UNCHANGED <<provider, config, title, labels, boardStatus, branches, prs,
                   calls, result, nops, failures, runs, repo, comments, providerName,
                   manager, git, managers, raised>>

ListIssues ==
    \E status \in WorkflowStatus \cup {None}, oc \in Outcome :
        Listed(Query("get_issues", None, status), ListedIssues(repo, oc),
               Answer(GetIssues(repo, status, oc), <<>>, None, FALSE), oc)

IssuesForAi ==
    \E ai_type \in AiaType, status \in WorkflowStatus \cup {None}, oc \in Outcome :
        Listed(Query("get_issues_for_ai", ai_type, status), GetIssues(repo, status, oc),
               Answer(GetIssuesForAi(repo, ai_type, status, oc), <<>>, None, FALSE), oc)

TodoIssues ==
    \E oc \in Outcome :
        Listed(Query("get_todo_issues", None, None), GetIssues(repo, TODO, oc),
               Answer(GetTodoIssues(repo, oc), <<>>, None, FALSE), oc)

WorkflowStatusCounts ==
    \E oc \in Outcome :
        Listed(Query("get_workflow_status", None, None), GetIssues(repo, None, oc),
               Answer(<<>>, GetWorkflowStatus(repo, oc), None, FALSE), oc)

ReadNext ==
    \/ ListIssues
    \/ IssuesForAi
    \/ TodoIssues
    \/ WorkflowStatusCounts

ReadSpec == ReadInit /\ [][ReadNext]_vars

-----------------------------------------------------------------------------
(* The trigger operations on the issues of a repository *)

\* the kinds of issue a trigger can find: waiting in ToDo, unassigned or
\* held by a role; in work; in Review; in Testing; in no column
TriggerKinds ==
    { Kind(<<>>, TODO),
      Kind(<<AssignedLabel(AI_RESEARCHER), PlainLabel("bug")>>, TODO),
      Kind(<<AssignedLabel(AI_CODER)>>, DOING),
      Kind(<<AssignedLabel(AI_REVIEWER), PlainLabel("feature")>>, REVIEW),
      Kind(<<AssignedLabel(AI_TESTER)>>, TESTING),
      Kind(<<PlainLabel("feature")>>, None) }

TriggerInit ==
    /\ providerName = <<>>
    /\ provider \in Providers
    /\ config \in {[project_number |-> pn, default_base_branch |-> "main"] : pn \in {<<>>, <<1>>}}
    /\ title \in ItemTitles
    /\ labels = <<>>
    /\ boardStatus = None
    /\ repo \in Repos(title, TriggerKinds)
    /\ Idle

\* the trigger `op` has run and left r
ApplyTrigger(op, r) ==
    /\ repo' = r.w.repo
    /\ branches' = r.w.branches
    /\ prs' = r.w.prs
    /\ comments' = r.w.comments
    /\ calls' = r.w.calls
    /\ cmds' = r.w.cmds
    /\ fetched' = r.fetched
    /\ result' = r.res
    /\ answer' = Answer(r.listed, <<>>, None, FALSE)
    /\ lastOp' = op
    /\ UNCHANGED <<provider, config, title, labels, boardStatus, nops, failures, runs,
                   providerName, manager, git, managers, raised>>

\* the outcomes of the commands of a trigger: of `gh issue list`, of
\* `gh pr comment`, and of the commands of the operation it starts on an
\* issue that has the labels ls
TriggerOutcomes(ls, order) ==
    [list : Outcome, comment : Outcome, run : OutcomesOn(ls, order)]

TriggerCoder ==
    \E l \in Outcome :
        LET top_issue == GetTopPriorityTodoIssue(repo, l)
            ls == IF top_issue = <<>> THEN <<>> ELSE top_issue[1].labels
        IN  \E o \in TriggerOutcomes(ls, <<"get", "status", "add", "branch">>) :
                /\ o.list = l
                /\ o.comment = "ok"
                /\ ApplyTrigger(Op("trigger_ai_coder", 0, "", ""), TriggerAiCoder(ListWorld, o))

TriggerReviewer ==
    \E o \in TriggerOutcomes(<<>>, <<>>) :
        ApplyTrigger(Op("trigger_ai_reviewer", 0, "", ""), TriggerAiReviewer(ListWorld, o))

TriggerTester ==
    \E o \in TriggerOutcomes(<<>>, <<>>) :
        ApplyTrigger(Op("trigger_ai_tester", 0, "", ""), TriggerAiTester(ListWorld, o))

TriggerNext ==
    \/ TriggerCoder
    \/ TriggerReviewer
    \/ TriggerTester

TriggerSpec == TriggerInit /\ [][TriggerNext]_vars

-----------------------------------------------------------------------------
(* The factory and the constructor of the coordinator on provider names *)

\* str.upper on one character of a provider name
UpperChar(c) ==
    CASE c = "b" -> "B"
      [] c = "c" -> "C"
      [] c = "e" -> "E"
      [] c = "g" -> "G"
      [] c = "h" -> "H"
      [] c = "i" -> "I"
      [] c = "k" -> "K"
      [] c = "l" -> "L"
      [] c = "t" -> "T"
      [] c = "u" -> "U"
      [] OTHER -> c

\* every way to write a word in lower case and capitals
RECURSIVE Casings(_)
Casings(word) ==
    IF word = <<>> THEN {<<>>}
    ELSE {<<c>> \o rest : c \in {word[1], UpperChar(word[1])},
                          rest \in Casings(Tail(word))}

\* the names the factory knows
SupportedNames ==
    {<<"g", "i", "t", "h", "u", "b">>, <<"g", "i", "t", "l", "a", "b">>,
     <<"b", "i", "t", "b", "u", "c", "k", "e", "t">>}

\* names the factory does not know: other systems, the empty name, prefixes
\* of and additions to the known names
OtherNames ==
    {<<"u", "n", "s", "u", "p", "p", "o", "r", "t", "e", "d">>, <<"s", "v", "n">>,
     <<>>, <<"g", "i", "t">>, <<"G", "i", "t">>, <<"g", "i", "t", "h", "u", "b", " ">>,
     <<"g", "i", "t", " ", "h", "u", "b">>, <<"g", "i", "t", "h", "u", "b", "2">>,
     <<"G", "i", "t", "L", "a", "b", "s">>}

ProviderNames == UNION {Casings(word) : word \in SupportedNames} \cup OtherNames

FactoryInit ==
    /\ Idle
    /\ provider = "github"
    /\ config \in Configs
    /\ title = CHOOSE t \in ItemTitles : TRUE
    /\ labels = <<>>
    /\ boardStatus = None
    /\ repo = <<>>
    /\ providerName \in ProviderNames

Built(op, made) ==
    /\ lastOp' = op
    /\ manager' = IF op.name = "create_manager" THEN made.value ELSE <<>>
    /\ managers' = IF op.name = "WorkflowCoordinator" THEN made.value ELSE <<>>
    /\ raised' = made.raised
    /\ UNCHANGED <<provider, config, title, labels, boardStatus, branches, prs,
                   fetched, calls, cmds, result, nops, failures, runs, repo, comments, answer,
                   providerName, git>>

\* AiaManagerFactory.create_manager(provider, aia_type, config)
CreateManagerFor ==
    \E aia_type \in AiaType :
        Built(Query("create_manager", aia_type, None),
              CreateManager(providerName, aia_type, config))

\* WorkflowCoordinator(config, provider)
Construct ==
    Built(Query("WorkflowCoordinator", None, None),
          WorkflowCoordinatorInit(config, providerName))

FactoryNext == CreateManagerFor \/ Construct

FactorySpec == FactoryInit /\ [][FactoryNext]_vars

-----------------------------------------------------------------------------
(* The methods of a manager on one work item: a writing call on the item   *)
(* as it was found, and reading calls after it                              *)

\* the label lists the item is found with: no type label, each type label,
\* type labels among others, two assignments, two type labels
BackendLabels ==
    { <<>>,
      <<PlainLabel("priority:high")>>,
      <<PlainLabel("bug")>>,
      <<PlainLabel("documentation")>>,
      <<PlainLabel("feature")>>,
      <<PlainLabel("research")>>,
      <<PlainLabel("test")>>,
      <<PlainLabel("bug"), PlainLabel("priority:high"), AssignedLabel(AI_CODER)>>,
      <<PlainLabel("priority:high"), AssignedLabel(AI_TESTER), PlainLabel("documentation")>>,
      <<AssignedLabel(AI_REVIEWER), PlainLabel("research")>>,
      <<AssignedLabel(AI_CODER), AssignedLabel(AI_REVIEWER), PlainLabel("test")>>,
      <<AssignedLabel("human"), PlainLabel("priority:high")>>,
      <<PlainLabel("bug"), PlainLabel("feature")>> }

\* the manager classes by the provider of the coordinator
ClassOf(provider_name) ==
    CASE provider_name = "github" -> "GitHubAiaManager"
      [] provider_name = "gitlab" -> "GitLabAiaManager"
      [] provider_name = "bitbucket" -> "BitbucketAiaManager"

BackendInit ==
    /\ Idle
    /\ providerName = <<>>
    /\ provider \in {"github", "gitlab", "bitbucket"}
    /\ config \in {c \in Configs : c.default_base_branch = "main" /\ c.project_number /= <<0>>}
    /\ title \in ItemTitles
    /\ labels \in BackendLabels
    /\ boardStatus \in {None, TODO}
    /\ repo = <<>>

\* the state the methods act on, with the comments and the local repository
BackendWorld ==
    [number |-> ItemNumber, title |-> title, labels |-> labels,
     boardStatus |-> boardStatus, branches |-> branches, prs |-> prs,
     comments |-> comments, git |-> git, calls |-> <<>>, cmds |-> <<>>]

\* the issue as the manager reads it
BackendIssue == IssueOf(IssueData(BackendWorld))

\* a method and its arguments
Method(method, arg) == [Op(method, 0, "", "") EXCEPT !.arg = arg]

\* what a writing method leaves, and what a reading method leaves
Wrote(r) == [w |-> r.w, res |-> r.res, answer |-> NoAnswer]
Read(command, oc, issues) ==
    [w |-> [BackendWorld EXCEPT !.cmds = <<Cmd(command, <<>>, oc)>>], res |-> result,
     answer |-> Answer(issues, <<>>, None, FALSE)]

\* the call has returned or raised
Invoked(op, called) ==
    /\ lastOp' = op
    /\ nops' = nops + 1
    /\ UNCHANGED <<failures, runs>>
    /\ raised' = called.raised
    /\ IF called.value = <<>>
       THEN /\ cmds' = <<>>
            /\ UNCHANGED <<labels, boardStatus, branches, prs, comments, git, result,
                           answer>>
       ELSE LET done == called.value[1]
            IN  /\ labels' = done.w.labels
                /\ boardStatus' = done.w.boardStatus
                /\ branches' = done.w.branches
                /\ prs' = done.w.prs
                /\ comments' = done.w.comments
                /\ git' = done.w.git
                /\ cmds' = done.w.cmds
                /\ result' = done.res
                /\ answer' = done.answer
    /\ UNCHANGED <<provider, config, title, fetched, calls, repo, providerName,
                   manager, managers>>

\* a writing call is made on the item as it was found
AsFound == nops = 0

\* the labels a caller adds or removes
CallerLabels == {PlainLabel("bug"), AssignedLabel(AI_CODER)}

\* the files and the message of a commit, the comment and the number of a
\* pull request
CommitFiles == {<<>>, <<"a.py">>, <<"a.py", "b.py">>}
CommitMessages == {"Test commit"}
PrComments == {"Test comment"}
PrNumber == ItemNumber

GetIssuesCall ==
    /\ CanRun
    /\ \E status \in {None, TODO}, oc \in Outcome, launch \in Launch :
        Invoked(Method("get_issues", <<status>>),
                Invoke(ClassOf(provider), "get_issues", launch,
                       Read("gh issue list", oc,
                            GetIssues(<<IssueData(BackendWorld)>>, status, oc))))

GetIssueCall ==
    /\ CanRun
    /\ \E issue_number \in IssueNumbers, oc \in Outcome, launch \in Launch :
        LET got == GetIssue(BackendWorld, issue_number, oc)
        IN  Invoked(Method("get_issue", <<issue_number>>),
                    Invoke(ClassOf(provider), "get_issue", launch,
                           Read("gh issue view", IF got = <<>> THEN "API Error" ELSE "ok",
                                got)))

UpdateIssueStatusCall ==
    /\ AsFound
    /\ \E new_status \in WorkflowStatus, oc \in Outcome, launch \in Launch :
        Invoked(Method("update_issue_status", <<new_status>>),
                Invoke(ClassOf(provider), "update_issue_status", launch,
                       Wrote(UpdateIssueStatus(BackendWorld, BackendIssue, new_status, oc))))

AddLabelCall ==
    /\ AsFound
    /\ \E label \in CallerLabels, oc \in Outcome, launch \in Launch :
        Invoked(Method("add_label_to_issue", <<label>>),
                Invoke(ClassOf(provider), "add_label_to_issue", launch,
                       Wrote(AddLabelToIssue(BackendWorld, BackendIssue, label, oc))))

RemoveLabelCall ==
    /\ AsFound
    /\ \E label \in CallerLabels, oc \in Outcome, launch \in Launch :
        Invoked(Method("remove_label_from_issue", <<label>>),
                Invoke(ClassOf(provider), "remove_label_from_issue", launch,
                       Wrote(RemoveLabelFromIssue(BackendWorld, BackendIssue, label, oc))))

CreateBranchCall ==
    /\ AsFound
    /\ \E branch_type \in GetBranchTypeFromLabels(BackendIssue.labels),
          oc \in Outcome, launch \in Launch :
        Invoked(Method("create_branch", <<>>),
                Invoke(ClassOf(provider), "create_branch", launch,
                       Wrote(CreateBranch(BackendWorld, BackendIssue, branch_type, oc))))

CreateCommitCall ==
    /\ AsFound
    /\ \E files \in CommitFiles, message \in CommitMessages, launch \in Launch :
       \E oc \in [1..(Len(files) + 1) -> Outcome] :
        /\ \A i \in 1..Len(oc) : i > FirstFailure(oc) => oc[i] = "ok"
        /\ Invoked(Method("create_commit", <<files, message>>),
                   Invoke(ClassOf(provider), "create_commit", launch,
                          Wrote(CreateCommit(BackendWorld, GenerateBranchName(BackendIssue, FEATURE),
                                             files, message, oc))))

PushCommitCall ==
    /\ AsFound
    /\ \E oc \in Outcome, launch \in Launch :
        Invoked(Method("push_commit", <<>>),
                Invoke(ClassOf(provider), "push_commit", launch,
                       Wrote(PushCommit(BackendWorld, GenerateBranchName(BackendIssue, FEATURE),
                                        <<>>, "", oc))))

CreatePrCall ==
    /\ AsFound
    /\ \E t \in PrTitles, b \in PrBodies, oc \in Outcome, launch \in Launch :
        Invoked(Method("create_pr", <<t, b>>),
                Invoke(ClassOf(provider), "create_pr", launch,
                       Wrote(CreatePr(BackendWorld, t, b, GenerateBranchName(BackendIssue, FEATURE),
                                      config.default_base_branch, oc))))

CommentOnPrCall ==
    /\ AsFound
    /\ \E message \in PrComments, oc \in Outcome, launch \in Launch :
        Invoked(Method("comment_on_pr", <<PrNumber, message>>),
                Invoke(ClassOf(provider), "comment_on_pr", launch,
                       Wrote(CommentOnPr(BackendWorld, PrNumber, message, oc))))

AssignToAiCall ==
    /\ AsFound
    /\ \E ai_type \in AiaType, add \in Outcome, launch \in Launch :
       \E rm \in [1..Len(labels) -> Outcome] :
        /\ \A i \in 1..Len(labels) : rm[i] /= "ok" => StartsWithAssignedAi(labels[i])
        /\ Invoked(Method("assign_to_ai", <<ai_type>>),
                   Invoke(ClassOf(provider), "assign_to_ai", launch,
                          Wrote(AssignToAi(BackendWorld, BackendIssue, ai_type, rm, add))))

GetAssignedIssuesCall ==
    /\ CanRun
    /\ \E aia_type \in AiaType, oc \in Outcome, launch \in Launch :
        Invoked([Method("get_assigned_issues", <<>>) EXCEPT !.ai_type = aia_type],
                Invoke(ClassOf(provider), "get_assigned_issues", launch,
                       Read("gh issue list", oc,
                            GetAssignedIssues(<<IssueData(BackendWorld)>>, aia_type, oc))))

GetIssuesInColumnCall ==
    /\ CanRun
    /\ \E column_status \in {TODO, DOING}, oc \in Outcome, launch \in Launch :
        Invoked(Method("get_issues_in_column", <<column_status>>),
                Invoke(ClassOf(provider), "get_issues_in_column", launch,
                       Read("gh issue list", oc,
                            GetIssuesInColumn(<<IssueData(BackendWorld)>>, column_status, oc))))

GetTopPriorityTodoIssueCall ==
    /\ CanRun
    /\ \E oc \in Outcome, launch \in Launch :
        Invoked(Method("get_top_priority_todo_issue", <<>>),
                Invoke(ClassOf(provider), "get_top_priority_todo_issue", launch,
                       Read("gh issue list", oc,
                            GetTopPriorityTodoIssue(<<IssueData(BackendWorld)>>, oc))))

BackendNext ==
    \/ GetIssuesCall
    \/ GetIssueCall
    \/ UpdateIssueStatusCall
    \/ AddLabelCall
    \/ RemoveLabelCall
    \/ CreateBranchCall
    \/ CreateCommitCall
    \/ PushCommitCall
    \/ CreatePrCall
    \/ CommentOnPrCall
    \/ AssignToAiCall
    \/ GetAssignedIssuesCall
    \/ GetIssuesInColumnCall
    \/ GetTopPriorityTodoIssueCall

BackendSpec == BackendInit /\ [][BackendNext]_vars

-----------------------------------------------------------------------------
(* Issue.get_short_name on the titles an issue can have *)

\* the characters of the titles: a small and a capital letter, a digit, a
\* space, a tab, a punctuation mark and a letter outside ASCII
TitleChars == {"b", "U", "2", " ", "\t", "!", "U+00C9"}

\* the titles of up to MaxTitleLen characters
ShortTitles == UNION {[1..n -> TitleChars] : n \in 0..MaxTitleLen}

\* the same titles at the end of a title that reaches the limit of the name
LongTitles == {[i \in 1..(ShortNameLimit - 2) |-> "x"] \o t : t \in ShortTitles}

Titles == ShortTitles \cup LongTitles

TitleInit ==
    /\ Idle
    /\ providerName = <<>>
    /\ provider = "github"
    /\ config = [project_number |-> <<1>>, default_base_branch |-> "main"]
    /\ title \in Titles
    /\ labels = <<>>
    /\ boardStatus = None
    /\ repo = <<>>

\* issue.get_short_name()
IssueGetShortName ==
    /\ lastOp' = Query("get_short_name", None, None)
    /\ answer' = [NoAnswer EXCEPT !.short_name = GetShortName(title)]
    /\ UNCHANGED <<provider, config, title, labels, boardStatus, branches, prs,
                   fetched, calls, cmds, result, nops, failures, runs, repo, comments,
                   providerName, manager, git, managers, raised>>

TitleNext == IssueGetShortName

TitleSpec == TitleInit /\ [][TitleNext]_vars

-----------------------------------------------------------------------------
(* The four stages of the pipeline, run in order on one work item *)

\* the outcomes of a stage that does not run
NotRun ==
    [get |-> "ok", status |-> "ok", rm |-> <<>>, add |-> "ok", branch |-> "ok",
     pr |-> "ok", unlabel |-> "ok", pop |-> FEATURE]

\* the outcomes of a stage that runs on the labels its predecessor r left,
\* when the predecessor succeeded
StageOutcomes(r, order) ==
    IF r.res.success THEN OutcomesOn(r.w.labels, order) ELSE {NotRun}

PipelineInit == Init

\* WorkflowCoordinator.simulate_complete_workflow(issue_number)
Simulate ==
    /\ CanRun
    /\ \E n \in IssueNumbers, o1 \in Outcomes(<<"get", "status", "add", "branch">>) :
        LET r1 == StartCoderWorkflow(World, n, o1)
        IN  \E o2 \in StageOutcomes(r1, <<"get", "status", "add">>) :
        LET r2 == IF r1.res.success THEN CompleteCoderWorkflow(r1.w, n, o2) ELSE r1
        IN  \E o3 \in StageOutcomes(r2, <<"get", "status", "add">>) :
        LET r3 == IF r2.res.success THEN CompleteReviewerWorkflow(r2.w, n, o3) ELSE r2
        IN  \E o4 \in StageOutcomes(r3, <<"get", "pr", "status", "unlabel">>) :
            Apply(Op("simulate_complete_workflow", n, "", ""),
                  SimulateCompleteWorkflow(World, n, <<o1, o2, o3, o4>>))

PipelineNext == Simulate

PipelineSpec == PipelineInit /\ [][PipelineNext]_vars

-----------------------------------------------------------------------------
(* The life of one work item: any sequence of coordinator operations *)

\* the most pull requests the item is let to collect
MaxPrs == 2

\* the label lists of an item nobody holds: no label, or two type labels
LifeLabels == { <<>>, <<PlainLabel("bug"), PlainLabel("feature")>> }

\* the item waits in ToDo, assigned to nobody
LifeInit ==
    /\ provider \in Providers
    /\ config \in {[project_number |-> pn, default_base_branch |-> "main"] : pn \in {<<>>, <<1>>}}
    /\ title \in ItemTitles
    /\ labels \in LifeLabels
    /\ boardStatus = TODO
    /\ branches = {}
    /\ prs = <<>>
    /\ lastOp = Op("__init__", 0, "", "")
    /\ fetched = <<>>
    /\ calls = <<>>
    /\ cmds = <<>>
    /\ result = GitOperation(TRUE, Message("", 0, ""), NoOutput, None)
    /\ nops = 0
    /\ failures = 0
    /\ runs = <<>>
    /\ repo = <<>>
    /\ comments = {}
    /\ answer = NoAnswer
    /\ providerName = <<>>
    /\ manager = <<>>
    /\ git = NoGit
    /\ managers = <<>>
    /\ raised = NoException

\* the operation `op` has run on the item and left r
Step(op, r) ==
    /\ labels' = r.w.labels
    /\ boardStatus' = r.w.boardStatus
    /\ branches' = r.w.branches
    /\ prs' = r.w.prs
    /\ calls' = r.w.calls
    /\ cmds' = r.w.cmds
    /\ fetched' = r.fetched
    /\ result' = r.res
    /\ lastOp' = op
    /\ answer' = NoAnswer
    /\ UNCHANGED <<provider, config, title, nops, failures, runs, repo, comments, providerName,
                   manager, git, managers, raised>>

\* the repository as the triggers list it: the one item
ItemList == [ListWorld EXCEPT !.repo = <<IssueData(World)>>]

\* the trigger `op` has run on that repository and left r
StepTrigger(op, r) ==
    /\ labels' = r.w.repo[1].labels
    /\ boardStatus' = r.w.repo[1].status
    /\ branches' = r.w.branches
    /\ prs' = r.w.prs
    /\ comments' = r.w.comments
    /\ calls' = r.w.calls
    /\ cmds' = r.w.cmds
    /\ fetched' = r.fetched
    /\ result' = r.res
    /\ lastOp' = op
    /\ answer' = Answer(r.listed, <<>>, None, FALSE)
    /\ UNCHANGED <<provider, config, title, nops, failures, runs, repo, providerName, manager,
                   git, managers, raised>>

\* the outcomes of an operation none of whose commands fails
AllOk(ls) == CHOOSE o \in OutcomesOn(ls, <<>>) : TRUE

\* The outcomes of the commands of an operation on the item.  `probe` is what
\* the operation leaves when none of its commands fails: when it has called
\* no manager method after get_issue, a guard has refused the item, and the
\* commands after `gh issue view` never run and have no outcome.
Reached(probe, order) ==
    IF probe.w.calls = <<>> THEN Outcomes(<<"get">>) ELSE Outcomes(order)

LifeStartCoder ==
    \E n \in {ItemNumber} : \E o \in Reached(StartCoderWorkflow(World, n, AllOk(labels)),
                       <<"get", "status", "add", "branch">>) :
        \E r \in {StartCoderWorkflow(World, n, o)} :
            Step(Op("start_coder_workflow", n, "", ""), r)

LifeCompleteCoder ==
    \E n \in {ItemNumber} : \E o \in Reached(CompleteCoderWorkflow(World, n, AllOk(labels)),
                       <<"get", "status", "add">>) :
        \E r \in {CompleteCoderWorkflow(World, n, o)} :
            Step(Op("complete_coder_workflow", n, "", ""), r)

LifeCompleteReviewer ==
    \E n \in {ItemNumber} : \E o \in Reached(CompleteReviewerWorkflow(World, n, AllOk(labels)),
                       <<"get", "status", "add">>) :
        \E r \in {CompleteReviewerWorkflow(World, n, o)} :
            Step(Op("complete_reviewer_workflow", n, "", ""), r)

LifeCompleteTester ==
    /\ Len(prs) < MaxPrs
    /\ \E n \in {ItemNumber}, t \in PrTitles, b \in PrBodies :
          \E o \in Reached(CompleteTesterWorkflow(World, n, t, b, AllOk(labels)),
                       <<"get", "pr", "status", "unlabel">>) :
        \E r \in {CompleteTesterWorkflow(World, n, t, b, o)} :
            Step(Op("complete_tester_workflow", n, t, b), r)

LifeAssignResearcher ==
    \E n \in {ItemNumber} : \E o \in Reached(AssignResearcherToIssue(World, n, AllOk(labels)),
                       <<"get", "add">>) :
        \E r \in {AssignResearcherToIssue(World, n, o)} :
            Step(Op("assign_researcher_to_issue", n, "", ""), r)

LifeCompleteResearch ==
    \E n \in {ItemNumber} : \E o \in Reached(CompleteResearchWorkflow(World, n, AllOk(labels)),
                       <<"get", "unlabel">>) :
        \E r \in {CompleteResearchWorkflow(World, n, o)} :
            Step(Op("complete_research_workflow", n, "", ""), r)

LifeTriggerCoder ==
    \E o \in [list : Outcome, comment : {"ok"},
               run : Reached(StartCoderWorkflow(World, ItemNumber, AllOk(labels)),
                             <<"get", "status", "add", "branch">>)] :
        /\ o.list /= "ok" => o.run = AllOk(labels)
        /\ \E r \in {TriggerAiCoder(ItemList, o)} :
            StepTrigger(Op("trigger_ai_coder", 0, "", ""), r)

LifeTriggerReviewer ==
    \E o \in TriggerOutcomes(<<>>, <<>>) :
        \E r \in {TriggerAiReviewer(ItemList, o)} :
            StepTrigger(Op("trigger_ai_reviewer", 0, "", ""), r)

LifeTriggerTester ==
    \E o \in TriggerOutcomes(<<>>, <<>>) :
        \E r \in {TriggerAiTester(ItemList, o)} :
            StepTrigger(Op("trigger_ai_tester", 0, "", ""), r)

LifeNext ==
    \/ LifeStartCoder
    \/ LifeCompleteCoder
    \/ LifeCompleteReviewer
    \/ LifeCompleteTester
    \/ LifeAssignResearcher
    \/ LifeCompleteResearch
    \/ LifeTriggerCoder
    \/ LifeTriggerReviewer
    \/ LifeTriggerTester

LifeSpec == LifeInit /\ [][LifeNext]_vars

\* the last operation ran with no failure of a command: `gh issue view`
\* found the item, and every command after it exited with 0
RanClean ==
    /\ \A i \in 1..Len(cmds) : cmds[i].ok
    /\ result.message.format /= "Issue {} not found"

\* the same operations when no command ever fails
CleanNext == LifeNext /\ RanClean'

CleanSpec == LifeInit /\ [][CleanNext]_vars

\* the most operations in which a command fails
MaxFailures == 2

\* The four operations of the pipeline, retried for ever by a caller that runs
\* them in turn; a command fails in at most MaxFailures of the runs.
Turn ==
    CASE lastOp.name = "start_coder_workflow" -> "complete_coder_workflow"
      [] lastOp.name = "complete_coder_workflow" -> "complete_reviewer_workflow"
      [] lastOp.name = "complete_reviewer_workflow" -> "complete_tester_workflow"
      [] OTHER -> "start_coder_workflow"

\* the retried operation `op` has run on the item and left r
Retried(op, r) ==
    /\ Turn = op.name
    /\ labels' = r.w.labels
    /\ boardStatus' = r.w.boardStatus
    /\ branches' = r.w.branches
    /\ prs' = r.w.prs
    /\ calls' = r.w.calls
    /\ cmds' = r.w.cmds
    /\ fetched' = r.fetched
    /\ result' = r.res
    /\ lastOp' = op
    /\ failures' = IF RanClean' THEN failures ELSE failures + 1
    /\ failures' <= MaxFailures
    /\ UNCHANGED <<provider, config, title, nops, runs, repo, comments, answer,
                   providerName, manager, git, managers, raised>>

RetryStartCoder ==
    \E o \in Outcomes(<<"get", "status", "add", "branch">>) :
        \E r \in {StartCoderWorkflow(World, ItemNumber, o)} :
            Retried(Op("start_coder_workflow", ItemNumber, "", ""), r)

RetryCompleteCoder ==
    \E o \in Outcomes(<<"get", "status", "add">>) :
        \E r \in {CompleteCoderWorkflow(World, ItemNumber, o)} :
            Retried(Op("complete_coder_workflow", ItemNumber, "", ""), r)

RetryCompleteReviewer ==
    \E o \in Outcomes(<<"get", "status", "add">>) :
        \E r \in {CompleteReviewerWorkflow(World, ItemNumber, o)} :
            Retried(Op("complete_reviewer_workflow", ItemNumber, "", ""), r)

RetryCompleteTester ==
    \E t \in PrTitles, b \in PrBodies, o \in Outcomes(<<"get", "pr", "status", "unlabel">>) :
        \E r \in {CompleteTesterWorkflow(World, ItemNumber, t, b, o)} :
            Retried(Op("complete_tester_workflow", ItemNumber, t, b), r)

RetryNext ==
    \/ RetryStartCoder
    \/ RetryCompleteCoder
    \/ RetryCompleteReviewer
    \/ RetryCompleteTester

\* the caller runs the operation whose turn it is
TakesTurn ==
    \E t \in PrTitles \cup {""}, b \in PrBodies \cup {""} :
        lastOp' = Op(Turn, ItemNumber, t, b)

\* the caller never stops retrying
RetrySpec ==
    /\ LifeInit
    /\ [][RetryNext]_vars
    /\ WF_lastOp(TakesTurn)

-----------------------------------------------------------------------------
(* Two coordinators running start_coder_workflow on the same item, their
   manager calls interleaved *)

Coordinators == {1, 2}

\* the label lists of the item the two coordinators start on: no label, two
\* type labels, or held by the researcher
RaceLabels ==
    { <<>>,
      <<PlainLabel("bug"), PlainLabel("feature")>>,
      <<AssignedLabel(AI_RESEARCHER), PlainLabel("bug")>> }

\* one start_coder_workflow under way: the call it makes next, the issue it
\* fetched, the GitOperation it returned, the branches it created
Run(pc, issue, res, made) == [pc |-> pc, issue |-> issue, res |-> res, made |-> made]

\* the two coordinators work in one directory (shared) or in a clone each
RaceInit ==
    /\ provider \in Providers
    /\ config = [project_number |-> <<1>>, default_base_branch |-> "main"]
    /\ title \in ItemTitles
    /\ labels \in RaceLabels
    /\ boardStatus = TODO
    /\ branches = {}
    /\ prs = <<>>
    /\ lastOp = Op("__init__", 0, "", "")
    /\ fetched = <<>>
    /\ calls = <<>>
    /\ cmds = <<>>
    /\ result = GitOperation(TRUE, Message("", 0, ""), NoOutput, None)
    /\ nops = 0
    /\ failures = 0
    /\ \E shared \in BOOLEAN :
        runs = [shared |-> shared,
                of |-> [i \in Coordinators |-> Run("get_issue", <<>>, result, {})]]
    /\ repo = <<>>
    /\ comments = {}
    /\ answer = NoAnswer
    /\ providerName = <<>>
    /\ manager = <<>>
    /\ git = NoGit
    /\ managers = <<>>
    /\ raised = NoException

\* the branches of the directory coordinator i works in
WorkingCopy(i) == IF runs.shared THEN branches ELSE runs.of[i].made

\* the state the next manager call of coordinator i acts on
RaceWorld(i) == [World EXCEPT !.branches = WorkingCopy(i)]

\* coordinator i has made a manager call that left r, and goes on to `pc`,
\* or returns r.res when pc is "return"
Raced(i, pc, r, issue) ==
    /\ labels' = r.w.labels
    /\ boardStatus' = r.w.boardStatus
    /\ branches' = branches \cup r.w.branches
    /\ cmds' = r.w.cmds
    /\ result' = r.res
    /\ fetched' = issue
    /\ lastOp' = [Op("start_coder_workflow", ItemNumber, "", "") EXCEPT !.arg = <<i>>]
    /\ runs' = [runs EXCEPT !.of[i] =
                    Run(pc, issue, r.res, @.made \cup (r.w.branches \ WorkingCopy(i)))]
    /\ UNCHANGED <<provider, config, title, prs, calls, nops, failures, repo, comments,
                   answer, providerName, manager, git, managers, raised>>

\* start_coder_workflow: get_issue and the two guards
RaceGetIssue(i) ==
    /\ runs.of[i].pc = "get_issue"
    /\ \E o \in Outcomes(<<"get">>) :
        LET got == GetIssue(RaceWorld(i), ItemNumber, o.get)
        IN  IF got = <<>>
            THEN Raced(i, "return", Ret(RaceWorld(i), Failed("Issue {} not found", ItemNumber)), got)
            ELSE IF NotInToDo(got[1])
            THEN Raced(i, "return",
                       Ret(RaceWorld(i), Failed("Issue {} is not in ToDo status", ItemNumber)), got)
            ELSE Raced(i, "update_issue_status", Ret(RaceWorld(i), result), got)

\* start_coder_workflow: update_issue_status(issue, DOING)
RaceUpdateIssueStatus(i) ==
    /\ runs.of[i].pc = "update_issue_status"
    /\ \E o \in Outcomes(<<"status">>) :
        LET issue == runs.of[i].issue
            r == UpdateIssueStatus(RaceWorld(i), issue[1], DOING, o.status)
        IN  Raced(i, IF r.res.success THEN "assign_to_ai" ELSE "return", r, issue)

\* start_coder_workflow: assign_to_ai(issue, AI_CODER), on the labels fetched
RaceAssignToAi(i) ==
    /\ runs.of[i].pc = "assign_to_ai"
    /\ \E o \in OutcomesOn(runs.of[i].issue[1].labels, <<"add">>) :
        LET issue == runs.of[i].issue
            r == AssignToAi(RaceWorld(i), issue[1], AI_CODER, o.rm, o.add)
        IN  Raced(i, IF r.res.success THEN "create_branch" ELSE "return", r, issue)

\* start_coder_workflow: create_branch(issue) and the result returned.
\* `git checkout -b` fails on a branch the directory already has.
RaceCreateBranch(i) ==
    /\ runs.of[i].pc = "create_branch"
    /\ \E o \in OutcomesOn(runs.of[i].issue[1].labels, <<"branch">>) :
        LET issue == runs.of[i].issue
            r == CreateBranch(RaceWorld(i), issue[1], o.pop, o.branch)
        IN  /\ GenerateBranchName(issue[1], o.pop) \in WorkingCopy(i) => o.branch /= "ok"
            /\ IF ~r.res.success THEN Raced(i, "return", r, issue)
               ELSE Raced(i, "return",
                          Ret(r.w, Succeeded("Started coder workflow for issue {}",
                                             ItemNumber, r.res.output)),
                          issue)

RaceNext ==
    \E i \in Coordinators :
        \/ RaceGetIssue(i)
        \/ RaceUpdateIssueStatus(i)
        \/ RaceAssignToAi(i)
        \/ RaceCreateBranch(i)

RaceSpec == RaceInit /\ [][RaceNext]_vars

-----------------------------------------------------------------------------
(* Properties *)

\* the last operation was `name`
Ran(name) == lastOp.name = name

\* the last operation fetched an issue
Found == fetched /= <<>>

\* the manager methods the last operation called, in order
Methods == [i \in 1..Len(calls) |-> calls[i].method]

\* the arguments of those calls, in order
Args == [i \in 1..Len(calls) |-> calls[i].arg]

\* every manager call of the last operation returned success
AllSucceeded == \A i \in 1..Len(calls) : calls[i].res.success

\* the role of the first assignment label of a label list, or None
FirstAssignedRole(ls) ==
    LET at == {i \in 1..Len(ls) : ls[i].kind = "assigned"}
    IN  IF at = {} THEN None
        ELSE ls[CHOOSE i \in at : \A j \in at : i <= j].name

\* the assignment labels of a label list, in order
AssignedLabelsOf(ls) == SelectSeq(ls, LAMBDA l : l.kind = "assigned")

\* the six transition operations, and the role each complete-* one requires
Transitions ==
    {"start_coder_workflow", "complete_coder_workflow", "complete_reviewer_workflow",
     "complete_tester_workflow", "assign_researcher_to_issue", "complete_research_workflow"}
OwnRole ==
    [name \in {"complete_coder_workflow", "complete_reviewer_workflow",
               "complete_tester_workflow", "complete_research_workflow"} |->
        CASE name = "complete_coder_workflow" -> AI_CODER
          [] name = "complete_reviewer_workflow" -> AI_REVIEWER
          [] name = "complete_tester_workflow" -> AI_TESTER
          [] name = "complete_research_workflow" -> AI_RESEARCHER]

\* the slug of the title "Fix UI: 2 bu"
ItemSlug == <<"f", "i", "x", "-", "u", "i", "-", "2", "-", "b", "u">>

\* the single-letter codes of the type labels of a label list; F when none
PrefixesOf(ls) ==
    LET names == {ls[i].name : i \in {j \in 1..Len(ls) : ls[j].kind = "plain"}}
        codes == {<<"bug", "B">>, <<"documentation", "D">>, <<"feature", "F">>,
                  <<"research", "R">>, <<"test", "T">>}
        found == {c[2] : c \in {d \in codes : d[1] \in names}}
    IN  IF found = {} THEN {"F"} ELSE found

\* C1: start-coder on a fetched item whose board status is not ToDo (another
\* column, or absent) returns the failed result saying the item is not in
\* ToDo status, calls no manager method and runs no command, and leaves the
\* item's labels and board column, the branches and the pull requests as
\* they were.
C1_StartCoderNotInToDo ==
    [][ (lastOp'.name = "start_coder_workflow" /\ fetched' /= <<>>
            /\ fetched'[1].project_status /= TODO)
        => /\ result' = GitOperation(FALSE,
                            Message("Issue {} is not in ToDo status", lastOp'.issue_number, ""),
                            NoOutput, None)
           /\ calls' = <<>>
           /\ cmds' = <<>>
           /\ labels' = labels
           /\ boardStatus' = boardStatus
           /\ branches' = branches
           /\ prs' = prs ]_vars

\* start-coder has refused an item that the board holds in Doing
C1_Witness ==
    /\ Ran("start_coder_workflow")
    /\ Found
    /\ fetched[1].project_status = DOING
    /\ boardStatus = DOING
    /\ ~result.success

\* C2: start-coder on a fetched item in ToDo, when every manager call it
\* makes succeeds, makes exactly three calls, update_issue_status(Doing),
\* assign_to_ai(ai-coder), create_branch, in this order, and returns success
\* with the output create_branch returned, a branch name.
C2_StartCoderCalls ==
    (Ran("start_coder_workflow") /\ Found /\ fetched[1].project_status = TODO
        /\ AllSucceeded)
    => /\ Methods = <<"update_issue_status", "assign_to_ai", "create_branch">>
       /\ Args = << <<DOING>>, <<AI_CODER>>, <<>> >>
       /\ result.success
       /\ result.output = calls[3].res.output
       /\ result.output.kind = "branch"

\* start-coder has run to its end on an item in ToDo
C2_Witness ==
    /\ Ran("start_coder_workflow")
    /\ Found
    /\ fetched[1].project_status = TODO
    /\ Len(calls) = 3
    /\ result.success
    /\ result.output.branch \in branches

\* C3: complete-coder, complete-reviewer, complete-tester and
\* complete-research on a fetched item whose assigned role (that of its first
\* assignment label, or none) is not the operation's own return the failed
\* result naming the role the item is not assigned to, call no manager method
\* and run no command.
C3_CompleteWrongRole ==
    (lastOp.name \in DOMAIN OwnRole /\ Found
        /\ FirstAssignedRole(fetched[1].labels) /= OwnRole[lastOp.name])
    => /\ result = GitOperation(FALSE,
                        Message("Issue {} is not assigned to {}", lastOp.issue_number,
                                OwnRole[lastOp.name]),
                        NoOutput, None)
       /\ calls = <<>>
       /\ cmds = <<>>

\* complete-reviewer has refused an item whose first assignment is ai-coder
C3_Witness ==
    /\ Ran("complete_reviewer_workflow")
    /\ Found
    /\ FirstAssignedRole(fetched[1].labels) = AI_CODER
    /\ ~result.success
    /\ calls = <<>>

\* C4: complete-coder (complete-reviewer) on a fetched item assigned to
\* ai-coder (ai-reviewer), when every manager call it makes succeeds, makes
\* exactly two calls, update_issue_status(Review) (Testing) then
\* assign_to_ai(ai-reviewer) (ai-tester), and returns success; afterwards the
\* board holds the item in Review (Testing) and its assigned role is
\* ai-reviewer (ai-tester).
C4_CompleteHandsOver ==
    \A op \in { <<"complete_coder_workflow", AI_CODER, REVIEW, AI_REVIEWER>>,
               <<"complete_reviewer_workflow", AI_REVIEWER, TESTING, AI_TESTER>> } :
        (Ran(op[1]) /\ Found /\ FirstAssignedRole(fetched[1].labels) = op[2]
            /\ AllSucceeded)
        => /\ Methods = <<"update_issue_status", "assign_to_ai">>
           /\ Args = << <<op[3]>>, <<op[4]>> >>
           /\ result.success
           /\ boardStatus = op[3]
           /\ FirstAssignedRole(labels) = op[4]

\* C5: complete-tester makes its manager calls in the order create_pr,
\* update_issue_status(Done), remove_label_from_issue(assigned:ai-tester), each
\* only after the one before it returned success: no status update before
\* the pull request was created, and neither status update nor label removal
\* when create_pr fails.  The commands run in the same order.
C5_CompleteTesterOrder ==
    Ran("complete_tester_workflow")
    => /\ Len(calls) <= 3
       /\ Methods = SubSeq(<<"create_pr", "update_issue_status", "remove_label_from_issue">>,
                           1, Len(calls))
       /\ Args = SubSeq(<< <<>>, <<DONE>>, <<"assigned:", AI_TESTER>> >>, 1, Len(calls))
       /\ \A i \in 1..(Len(calls) - 1) : calls[i].res.success
       /\ Len(cmds) <= Len(calls)
       /\ [i \in 1..Len(cmds) |-> cmds[i].command]
            = SubSeq(<<"gh pr create", "gh project item-edit", "gh issue edit --remove-label">>,
                     1, Len(cmds))

\* complete-tester has made all three calls
C5_Witness ==
    /\ Ran("complete_tester_workflow")
    /\ Len(calls) = 3
    /\ Len(cmds) = 3

\* C6: complete-tester on a fetched item assigned to ai-tester, when every
\* manager call it makes succeeds, calls create_pr exactly once, with the
\* caller's title and body, the head {prefix}/{number}/{slug} derived from the
\* fetched item and the base of the configuration; that pull request is the
\* one created; afterwards the board holds the item in Done, the item has no
\* assigned:ai-tester label, and the result is success.
C6_CompleteTesterEffect ==
    (Ran("complete_tester_workflow") /\ Found
        /\ FirstAssignedRole(fetched[1].labels) = AI_TESTER /\ AllSucceeded)
    => /\ Cardinality({i \in 1..Len(calls) : calls[i].method = "create_pr"}) = 1
       /\ calls[1].method = "create_pr"
       /\ calls[1].pr.title = lastOp.pr_title
       /\ calls[1].pr.body = lastOp.pr_body
       /\ calls[1].pr.head.prefix \in PrefixesOf(fetched[1].labels)
       /\ calls[1].pr.head.number = lastOp.issue_number
       /\ calls[1].pr.head.short_name = ItemSlug
       /\ calls[1].pr.base = config.default_base_branch
       /\ prs /= <<>> /\ prs[Len(prs)] = calls[1].pr
       /\ boardStatus = DONE
       /\ \A i \in 1..Len(labels) : labels[i] /= AssignedLabel(AI_TESTER)
       /\ result.success

\* complete-tester has run to its end on an item with two type labels
C6_Witness ==
    /\ Ran("complete_tester_workflow")
    /\ Found
    /\ Cardinality(PrefixesOf(fetched[1].labels)) = 2
    /\ Len(calls) = 3
    /\ result.success
    /\ boardStatus = DONE

\* C7: each of the six transition operations, when get_issue returns None,
\* returns the failed result whose message names the number asked for, calls
\* no manager method and runs no command.
C7_IssueNotFound ==
    (lastOp.name \in Transitions /\ ~Found)
    => /\ result = GitOperation(FALSE,
                        Message("Issue {} not found", lastOp.issue_number, ""),
                        NoOutput, None)
       /\ calls = <<>>
       /\ cmds = <<>>

\* complete-research has been asked for a number no issue has
C7_Witness ==
    /\ Ran("complete_research_workflow")
    /\ lastOp.issue_number = MissingNumber
    /\ ~Found
    /\ ~result.success

\* C8: in each of the six transition operations the first manager call to
\* return a failed GitOperation is the last call the operation makes, and the
\* operation returns that GitOperation itself.
C8_FirstFailureReturned ==
    lastOp.name \in Transitions
    => \A i \in 1..Len(calls) :
          ~calls[i].res.success => (i = Len(calls) /\ result = calls[i].res)

\* start-coder has failed in its second call, assign_to_ai
C8_Witness ==
    /\ Ran("start_coder_workflow")
    /\ Len(calls) = 2
    /\ calls[1].res.success
    /\ ~calls[2].res.success
    /\ result = calls[2].res

\* C9: an operation that fails in a later call takes nothing back.  When
\* complete-tester fails in update_issue_status after create_pr succeeded,
\* the pull request is on the remote, and the board column and the labels
\* are what they were before the operation, the assigned:ai-tester label
\* included; no command follows the failed one.  When start-coder fails in
\* assign_to_ai after update_issue_status succeeded, the board holds the item
\* in Doing.
C9_NoRollback ==
    [][ /\ (lastOp'.name = "complete_tester_workflow" /\ Len(calls') = 2
                /\ ~calls'[2].res.success)
            => /\ prs' = Append(prs, calls'[1].pr)
               /\ boardStatus' = boardStatus
               /\ labels' = labels
               /\ \E i \in 1..Len(labels') : labels'[i] = AssignedLabel(AI_TESTER)
               /\ Len(cmds') <= 2
        /\ (lastOp'.name = "start_coder_workflow" /\ Len(calls') = 2
                /\ ~calls'[2].res.success)
            => /\ boardStatus' = DOING
               /\ cmds'[Len(cmds')].command = "gh issue edit --add-label" ]_vars

\* complete-tester has created the pull request and failed to move the item
C9_Witness ==
    /\ Ran("complete_tester_workflow")
    /\ Len(calls) = 2
    /\ ~calls[2].res.success
    /\ prs /= <<>>
    /\ boardStatus /= DONE

\* C10: after an assign_to_ai(item, r) that returned success the item has
\* exactly one assignment label, assigned:<r>.
C10_ExactlyOneAssignment ==
    \A i \in 1..Len(calls) :
        (calls[i].method = "assign_to_ai" /\ calls[i].res.success)
        => AssignedLabelsOf(labels) = <<AssignedLabel(calls[i].arg[1])>>

\* the operations that assign a role to an item they fetched, and the role
Assigners ==
    [name \in {"start_coder_workflow", "assign_researcher_to_issue"} |->
        IF name = "start_coder_workflow" THEN AI_CODER ELSE AI_RESEARCHER]

\* the labels the commands of the last operation removed or tried to remove
RemovalsIssued ==
    LET rm == SelectSeq(cmds, LAMBDA c : c.command = "gh issue edit --remove-label")
    IN  [i \in 1..Len(rm) |-> rm[i].text]

C12_ResearchKeepsStatus ==
    [][ /\ lastOp'.name \in {"assign_researcher_to_issue", "complete_research_workflow"}
            => /\ boardStatus' = boardStatus
               /\ \A i \in 1..Len(calls') : calls'[i].method /= "update_issue_status"
               /\ \A i \in 1..Len(cmds') : cmds'[i].command /= "gh project item-edit"
        /\ (lastOp'.name = "complete_research_workflow" /\ fetched' /= <<>>
                /\ FirstAssignedRole(fetched'[1].labels) = AI_RESEARCHER)
            => /\ Len(calls') = 1
               /\ calls'[1].method = "remove_label_from_issue"
               /\ calls'[1].arg = <<"assigned:", "ai-researcher">>
               /\ Len(cmds') = 1
               /\ cmds'[1].command = "gh issue edit --remove-label" ]_vars

\* complete-research has taken the researcher's label off an item that the
\* board holds in Review
C12_Witness ==
    /\ Ran("complete_research_workflow")
    /\ result.success
    /\ boardStatus = REVIEW
    /\ Len(calls) = 1
    /\ AssignedLabelsOf(labels) = <<>>

\* the label begins with "assigned:ai-"
BeginsAssignedAi(l) ==
    /\ l.kind = "assigned"
    /\ l.name \in {"ai-coder", "ai-marketeer", "ai-reviewer", "ai-researcher",
                   "ai-tester", "ai-helper"}

\* the positions of the labels of ls that begin with "assigned:ai-"
AssignedAiAt(ls) == {i \in 1..Len(ls) : BeginsAssignedAi(ls[i])}

C14_AssignedPrefix ==
    Ran("is_assigned_to_ai")
    => /\ answer.flag <=> \E i \in 1..Len(labels) : labels[i].kind = "assigned"
       /\ answer.flag <=> GetAssignedAi(labels) /= None

\* C14 (amended): is_assigned_to_ai is true exactly when some label begins
\* with "assigned:ai-", and exactly when get_assigned_ai is not None.
C14_AssignedAiPrefix ==
    Ran("is_assigned_to_ai")
    => /\ answer.flag <=> AssignedAiAt(labels) /= {}
       /\ answer.flag <=> GetAssignedAi(labels) /= None

\* is_assigned_to_ai has returned False for an issue whose only label is
\* assigned:human
C14_Witness ==
    /\ Ran("is_assigned_to_ai")
    /\ labels = <<[kind |-> "assigned", name |-> "human"]>>
    /\ ~answer.flag

\* the elements of seq at the positions idx, in the order of seq
Picked(seq, idx) ==
    LET pos(k) == CHOOSE i \in idx : Cardinality({j \in idx : j < i}) = k - 1
    IN  [k \in 1..Cardinality(idx) |-> seq[pos(k)]]

\* the five board statuses
BoardStatuses == {"ToDo", "Doing", "Review", "Testing", "Done"}

\* the label assigns the issue to one of the five roles
IsRoleLabel(l) ==
    /\ l.kind = "assigned"
    /\ l.name \in {"ai-coder", "ai-marketeer", "ai-reviewer", "ai-researcher", "ai-tester"}

\* `gh issue list` succeeded in the last listing
ListOk == cmds /= <<>> /\ cmds[1].command = "gh issue list" /\ cmds[1].ok

\* C15: get_workflow_status returns a dictionary whose keys are exactly the
\* five board statuses; the value of status s is the number of the issues
\* get_issues() returned (every issue of the repository) whose project_status
\* is s; an issue with no project_status is counted under no key, so the
\* values add up to the number of fetched issues that have a project_status.
C15_StatusCounts ==
    Ran("get_workflow_status")
    => /\ ListOk => Len(fetched) = Len(repo)
       /\ DOMAIN answer.counts = BoardStatuses
       /\ \A s \in BoardStatuses :
            answer.counts[s] =
                Cardinality({i \in 1..Len(fetched) : fetched[i].project_status = s})
       /\ answer.counts["ToDo"] + answer.counts["Doing"] + answer.counts["Review"]
            + answer.counts["Testing"] + answer.counts["Done"]
          = Cardinality({i \in 1..Len(fetched) : fetched[i].project_status /= "None"})

\* get_workflow_status has counted one of two fetched issues: the other has
\* no board status
C15_Witness ==
    /\ Ran("get_workflow_status")
    /\ Len(fetched) = 2
    /\ fetched[1].project_status = None
    /\ fetched[2].project_status = REVIEW
    /\ answer.counts[REVIEW] = 1
    /\ answer.counts[TODO] = 0

\* C16: get_todo_issues returns exactly the issues of get_issues(ToDo) that
\* carry no assignment label of any role, in the order the manager returned
\* them; no returned issue is assigned to a role.
C16_UnassignedToDo ==
    Ran("get_todo_issues")
    => /\ \A i \in 1..Len(fetched) : fetched[i].project_status = "ToDo"
       /\ answer.issues =
            Picked(fetched, {i \in 1..Len(fetched) :
                                \A j \in 1..Len(fetched[i].labels) :
                                    ~IsRoleLabel(fetched[i].labels[j])})
       /\ \A k \in 1..Len(answer.issues) :
            \A j \in 1..Len(answer.issues[k].labels) :
                ~IsRoleLabel(answer.issues[k].labels[j])

\* get_todo_issues has returned the second of two ToDo issues: the first is
\* assigned
C16_Witness ==
    /\ Ran("get_todo_issues")
    /\ Len(fetched) = 2
    /\ FirstAssignedRole(fetched[1].labels) /= None
    /\ answer.issues = <<fetched[2]>>

\* C17: get_issues_for_ai(role, s) with a status s returns exactly the issues
\* of the manager's get_issues(s) whose assigned role is role;
\* get_issues_for_ai(role) without a status returns exactly the issues, of
\* all the manager's get_issues() returned (every issue, in any column or
\* none), whose assigned role is role.
C17_IssuesForRole ==
    Ran("get_issues_for_ai")
    => /\ lastOp.status /= None
            => \A i \in 1..Len(fetched) : fetched[i].project_status = lastOp.status
       /\ (lastOp.status = None /\ ListOk) => Len(fetched) = Len(repo)
       /\ answer.issues =
            Picked(fetched, {i \in 1..Len(fetched) :
                                FirstAssignedRole(fetched[i].labels) = lastOp.ai_type})

\* get_issues_for_ai(ai-coder) has returned the one issue of ai-coder, which
\* is in no column, and left out an issue whose first label is ai-reviewer's
C17_Witness ==
    /\ Ran("get_issues_for_ai")
    /\ lastOp.ai_type = AI_CODER
    /\ lastOp.status = None
    /\ Len(fetched) = 2
    /\ FirstAssignedRole(fetched[1].labels) = AI_REVIEWER
    /\ answer.issues = <<fetched[2]>>
    /\ repo[2].status = None

\* C20: get_issues(s) with a status s returns exactly the parsed issues whose
\* project_status is s, in provider order, and so no issue without a
\* project_status; get_issues() returns every parsed issue.  When
\* `gh issue list` succeeds the parsed issues are the issues of the
\* repository, one for one.
C20_ListFilter ==
    Ran("get_issues")
    => /\ ListOk => /\ Len(fetched) = Len(repo)
                    /\ \A i \in 1..Len(fetched) : fetched[i].number = repo[i].number
       /\ lastOp.status /= None
            => /\ answer.issues =
                    Picked(fetched, {i \in 1..Len(fetched) :
                                        fetched[i].project_status = lastOp.status})
               /\ \A k \in 1..Len(answer.issues) :
                    answer.issues[k].project_status /= "None"
       /\ lastOp.status = None => answer.issues = fetched

\* get_issues(Review) has returned the second of two issues: the first has
\* no board status
C20_Witness ==
    /\ Ran("get_issues")
    /\ lastOp.status = REVIEW
    /\ Len(fetched) = 2
    /\ fetched[1].project_status = None
    /\ answer.issues = <<fetched[2]>>

\* the commands that change the remote or the local repository
Mutating ==
    {"gh project item-edit", "gh issue edit --add-label", "gh issue edit --remove-label",
     "git checkout -b", "gh pr create", "gh pr comment"}

\* C18: trigger_ai_coder, when get_issues(ToDo) is empty, returns the failed
\* result "No ToDo issues available for ai-coder", calls no manager method
\* and runs no mutating command.  Otherwise it runs start-coder on the number
\* of the first issue of that list: what start-coder fetched has this number;
\* when start-coder fails the trigger returns its failed result as it is
\* (not found, not in ToDo, or the result of the manager call that failed);
\* when it succeeds the trigger returns success with the output of
\* create_branch, the name of a branch of that issue.
C18_TriggerCoder ==
    Ran("trigger_ai_coder")
    => /\ \A i \in 1..Len(answer.issues) : answer.issues[i].project_status = "ToDo"
       /\ answer.issues = <<>>
            => /\ result = GitOperation(FALSE,
                                Message("No ToDo issues available for ai-coder", 0, ""),
                                NoOutput, None)
               /\ calls = <<>>
               /\ \A i \in 1..Len(cmds) : cmds[i].command \notin Mutating
       /\ answer.issues /= <<>>
            => LET first == answer.issues[1].number
               IN  /\ Found => fetched[1].number = first
                   /\ ~Found => result = Failed("Issue {} not found", first)
                   /\ (Found /\ ~result.success)
                        => \/ result = Failed("Issue {} is not in ToDo status", first)
                           \/ /\ calls /= <<>>
                              /\ result = calls[Len(calls)].res
                   /\ result.success
                        => /\ Methods = <<"update_issue_status", "assign_to_ai", "create_branch">>
                           /\ AllSucceeded
                           /\ result.output = calls[3].res.output
                           /\ result.output.kind = "branch"
                           /\ result.output.branch.number = first
                           /\ result.message.number = first

\* trigger_ai_coder has started the first of two ToDo issues and left the
\* second in ToDo
C18_Witness ==
    /\ Ran("trigger_ai_coder")
    /\ result.success
    /\ Len(answer.issues) = 2
    /\ Len(repo) = 2
    /\ result.output.branch.number = repo[1].number
    /\ repo[1].status = DOING
    /\ repo[2].status = TODO

\* C19: trigger_ai_reviewer and trigger_ai_tester leave the labels and the
\* board column of every issue as they were, call none of
\* update_issue_status, assign_to_ai, add_label_to_issue and
\* remove_label_from_issue, and run no command but `gh issue list` and
\* `gh pr comment`.  When the Review (resp. Testing) column is empty they
\* return a failed result and post no comment; otherwise they comment on the
\* number of the first issue of the column, and on no other.
C19_TriggerCommentsOnly ==
    [][ lastOp'.name \in {"trigger_ai_reviewer", "trigger_ai_tester"}
        => /\ repo' = repo
           /\ branches' = branches
           /\ prs' = prs
           /\ \A i \in 1..Len(calls') :
                calls'[i].method \notin {"update_issue_status", "assign_to_ai",
                                         "add_label_to_issue", "remove_label_from_issue"}
           /\ \A i \in 1..Len(cmds') :
                cmds'[i].command \in {"gh issue list", "gh pr comment"}
           /\ \A i \in 1..Len(answer'.issues) :
                answer'.issues[i].project_status
                    = IF lastOp'.name = "trigger_ai_reviewer" THEN "Review" ELSE "Testing"
           /\ answer'.issues = <<>>
                => /\ ~result'.success
                   /\ calls' = <<>>
                   /\ comments' = comments
                   /\ \A i \in 1..Len(cmds') : cmds'[i].command /= "gh pr comment"
           /\ answer'.issues /= <<>>
                => LET first == answer'.issues[1].number
                   IN  /\ Len(calls') = 1
                       /\ calls'[1].method = "comment_on_pr"
                       /\ result'.message.number = first
                       /\ \A c \in comments' \ comments : c.pr_number = first
                       /\ calls'[1].res.success
                            => \E c \in comments' : c.pr_number = first ]_vars

\* trigger_ai_reviewer has commented on the first of two issues in Review
C19_Witness ==
    /\ Ran("trigger_ai_reviewer")
    /\ result.success
    /\ Len(answer.issues) = 2
    /\ Len(repo) = 2
    /\ \E c \in comments : c.pr_number = repo[1].number
    /\ \A c \in comments : c.pr_number /= repo[2].number
    /\ repo[1].status = REVIEW
    /\ repo[2].status = REVIEW

\* the display strings of the board statuses, in pieces
DisplayString ==
    [s \in BoardStatuses |->
        CASE s = "ToDo" -> <<"U+1F4CB", " ", "ToDo">>
          [] s = "Doing" -> <<"U+1F504", " ", "Doing">>
          [] s = "Review" -> <<"U+1F440", " ", "Review">>
          [] s = "Testing" -> <<"U+1F9EA", " ", "Testing">>
          [] s = "Done" -> <<"U+2705", " ", "Done">>]

\* the commands of the last operation that edit the project board
ItemEdits == SelectSeq(cmds, LAMBDA c : c.command = "gh project item-edit")

\* the update_issue_status calls of the last operation
StatusUpdates == SelectSeq(calls, LAMBDA c : c.method = "update_issue_status")

\* C21: update_issue_status under a config with no project number (None, or
\* 0, which no project has) returns the failed result "No project number
\* configured" and runs no command; under a config with a project number it
\* runs exactly one command, `gh project item-edit`, which carries the
\* display string of the new status.
C21_UpdateStatusConfig ==
    \A k \in 1..Len(StatusUpdates) :
        IF config.project_number \in {<<>>, <<0>>}
        THEN /\ StatusUpdates[k].res =
                    GitOperation(FALSE, Message("No project number configured", 0, ""),
                                 NoOutput, None)
             /\ ItemEdits = <<>>
        ELSE /\ Len(StatusUpdates) = Len(ItemEdits)
             /\ ItemEdits[k].text = DisplayString[StatusUpdates[k].arg[1]]
             /\ StatusUpdates[k].res.success = ItemEdits[k].ok

\* complete-coder has moved an item to Review with one command carrying the
\* display string of Review
C21_Witness ==
    /\ Ran("complete_coder_workflow")
    /\ config.project_number = <<1>>
    /\ Len(ItemEdits) = 1
    /\ ItemEdits[1].text = <<"U+1F440", " ", "Review">>
    /\ ItemEdits[1].ok
    /\ boardStatus = REVIEW

\* the capital of a letter, and the letter itself
Capital ==
    [c \in AsciiLower |->
        CASE c = "a" -> "A" [] c = "b" -> "B" [] c = "c" -> "C" [] c = "e" -> "E"
          [] c = "g" -> "G" [] c = "h" -> "H" [] c = "i" -> "I" [] c = "k" -> "K"
          [] c = "l" -> "L" [] c = "t" -> "T" [] c = "u" -> "U" [] OTHER -> c]

\* s is word written in some casing
IsCasingOf(s, word) ==
    /\ Len(s) = Len(word)
    /\ \A i \in 1..Len(word) : s[i] \in {word[i], Capital[word[i]]}

\* the manager class a provider name stands for, None when it stands for none
BackendFor(s) ==
    CASE IsCasingOf(s, <<"g", "i", "t", "h", "u", "b">>) -> "GitHubAiaManager"
      [] IsCasingOf(s, <<"g", "i", "t", "l", "a", "b">>) -> "GitLabAiaManager"
      [] IsCasingOf(s, <<"b", "i", "t", "b", "u", "c", "k", "e", "t">>) ->
            "BitbucketAiaManager"
      [] OTHER -> None

\* C23: create_manager maps the provider name without regard to case: any
\* casing of github, gitlab or bitbucket yields the manager of that
\* provider, bound to the role and the configuration given; every other name
\* raises ValueError "Unsupported Git provider" and yields no manager, and
\* constructing a coordinator with such a name raises the same error and
\* yields no coordinator, while with a supported name the coordinator holds
\* one manager of that provider per role.
C23_FactoryMapping ==
    LET class == BackendFor(providerName)
        unsupported == Exception("ValueError", "Unsupported Git provider: {}",
                                 providerName)
    IN  /\ lastOp.name = "create_manager" =>
            IF class /= None
            THEN /\ manager = <<Manager(class, lastOp.ai_type, config)>>
                 /\ raised = NoException
            ELSE /\ manager = <<>>
                 /\ raised = unsupported
        /\ lastOp.name = "WorkflowCoordinator" =>
            IF class /= None
            THEN /\ managers = <<[t \in AiaType |-> Manager(class, t, config)]>>
                 /\ raised = NoException
            ELSE /\ managers = <<>>
                 /\ raised = unsupported

\* a manager was made from a name in mixed case
C23_Witness ==
    /\ lastOp.name = "create_manager"
    /\ providerName = <<"B", "i", "t", "B", "u", "c", "k", "e", "t">>
    /\ manager = <<Manager("BitbucketAiaManager", AI_TESTER, config)>>

\* the methods of a manager that return a list of issues, an issue or None,
\* and the ones that return a GitOperation
ListReads == {"get_issues", "get_assigned_issues", "get_issues_in_column"}
ItemReads == {"get_issue", "get_top_priority_todo_issue"}
Writes == (Contract \cup BoardMethods) \ (ListReads \cup ItemReads)

\* a command of the last call failed
CommandFailed == \E i \in 1..Len(cmds) : ~cmds[i].ok

\* C22: on the GitHub manager no call lets an exception out, and a call in
\* which a command failed returns a value that says so: a writing method a
\* failed GitOperation whose error and message carry the stderr of the
\* command, a listing method the empty list, get_issue None.
C22_FailuresBecomeValues ==
    (provider = "github" /\ lastOp.name \in Contract \cup BoardMethods) =>
        /\ raised = NoException
        /\ CommandFailed =>
            IF lastOp.name \in Writes
            THEN /\ ~result.success
                 /\ result.error \in Stderr
                 /\ result.message.text = result.error
            ELSE answer.issues = <<>>

\* the operations the contract of a provider is said to have
ProviderContract == Contract \cup {"get_top_priority_todo_issue"}

\* C24: on the GitLab and Bitbucket managers every operation of the contract
\* raises NotImplementedError with the provider's "implementation pending"
\* message, and changes nothing.
C24_PlaceholdersNotImplemented ==
    (provider \in {"gitlab", "bitbucket"} /\ lastOp.name \in ProviderContract) =>
        /\ raised.exc = "NotImplementedError"
        /\ raised.format \in {"GitLab implementation pending",
                              "Bitbucket implementation pending"}
        /\ cmds = <<>>

\* the characters a short name is said to be made of
SlugChars == AsciiLower \cup Digits \cup {"-"}

\* C25: the short name of every title has at most 30 characters, all of them
\* small ASCII letters, digits or hyphens, and does not end in a hyphen.
C25_SlugShape ==
    lastOp.name = "get_short_name" =>
        LET short_name == answer.short_name
        IN  /\ Len(short_name) <= 30
            /\ \A i \in 1..Len(short_name) : short_name[i] \in SlugChars
            /\ short_name /= <<>> => short_name[Len(short_name)] /= "-"

\* the type labels among the labels of a list
TypeLabelsOn(ls) ==
    {ls[i].name : i \in {j \in 1..Len(ls) : ls[j].kind = "plain"}}
        \cap {"bug", "documentation", "feature", "research", "test"}

\* the single-letter code of a type label
PrefixCode ==
    [bug |-> "B", documentation |-> "D", feature |-> "F", research |-> "R", test |-> "T"]

\* C26: create_branch, when it succeeds on an item with one type label or
\* none, creates the branch {prefix}/{number}/{short name} and returns its
\* name as output; the prefix is the code of the type label (bug B,
\* documentation D, feature F, research R, test T), F when there is none,
\* whatever other labels the item carries.
C26_BranchNameShape ==
    (/\ provider = "github"
     /\ lastOp.name = "create_branch"
     /\ raised = NoException
     /\ result.success
     /\ Cardinality(TypeLabelsOn(labels)) <= 1) =>
        LET types == TypeLabelsOn(labels)
            prefix == IF types = {} THEN "F" ELSE PrefixCode[CHOOSE t \in types : TRUE]
            branch_name == [prefix |-> prefix, number |-> ItemNumber,
                            short_name |-> ItemSlug]
        IN  /\ result.output = [kind |-> "branch", branch |-> branch_name]
            /\ branches = {branch_name}

\* a branch was created for an item labelled bug, priority:high and
\* assigned:ai-coder
C26_Witness ==
    /\ provider = "github"
    /\ lastOp.name = "create_branch"
    /\ result.success
    /\ labels = <<PlainLabel("bug"), PlainLabel("priority:high"), AssignedLabel(AI_CODER)>>
    /\ result.output.branch.prefix = "B"

C28_TriggerReturnsCommentFailure ==
    lastOp.name \in {"trigger_ai_reviewer", "trigger_ai_tester"} =>
        \A i \in 1..Len(calls) :
            (calls[i].method = "comment_on_pr" /\ ~calls[i].res.success)
                => result = calls[i].res

\* the stages of the pipeline in their order
StageOrder ==
    <<"start_coder_workflow", "complete_coder_workflow", "complete_reviewer_workflow",
      "complete_tester_workflow">>

\* the results of the stages among the calls cs, and the manager calls
StagesOf(cs) == SelectSeq(cs, LAMBDA c : \E k \in 1..4 : c.method = StageOrder[k])
ManagerCallsOf(cs) == SelectSeq(cs, LAMBDA c : \A k \in 1..4 : c.method /= StageOrder[k])

\* C29: simulate_complete_workflow runs start-coder, complete-coder,
\* complete-reviewer and complete-tester in this order on the same issue and
\* stops at the first stage that fails, returning the result of that stage.
\* On a manager whose issues carry the board column, for an existing issue
\* in ToDo with no assignment label, when every command and every manager
\* call succeeds (get_issue included: no stage reports the issue as not
\* found), all four stages succeed, the issue ends in Done with no
\* assignment label, and exactly one pull request has been created.
C29_PipelineRuns ==
    [][lastOp'.name = "simulate_complete_workflow" =>
        LET stages == StagesOf(calls')
            made == ManagerCallsOf(calls')
            n == Len(stages)
        IN  /\ n \in 1..4
            /\ \A k \in 1..n : stages[k].method = StageOrder[k]
            /\ \A k \in 1..(n - 1) : stages[k].res.success
            /\ ~stages[n].res.success => result' = stages[n].res
            /\ stages[n].res.success => n = 4 /\ result'.success
            /\ (/\ provider = "board"
                /\ lastOp'.issue_number = ItemNumber
                /\ boardStatus = "ToDo"
                /\ AssignedLabelsOf(labels) = <<>>
                /\ \A i \in 1..Len(cmds') : cmds'[i].ok
                /\ \A i \in 1..Len(made) : made[i].res.success
                /\ \A k \in 1..n : stages[k].res.message.format /= "Issue {} not found")
               => /\ n = 4
                  /\ \A k \in 1..4 : stages[k].res.success
                  /\ boardStatus' = "Done"
                  /\ AssignedLabelsOf(labels') = <<>>
                  /\ Len(prs') = Len(prs) + 1
      ]_vars

\* the four stages ran on an issue that was in ToDo, and the last succeeded
C29_Witness ==
    /\ provider = "board"
    /\ lastOp.name = "simulate_complete_workflow"
    /\ Len(StagesOf(calls)) = 4
    /\ result.success
    /\ boardStatus = "Done"
    /\ Len(prs) = 1
    /\ labels = <<PlainLabel("feature"), PlainLabel("priority:high")>>

\* C30: on the GitHub manager the board column is read back: the issue that
\* get_issue or get_issues() returns carries as project_status the column
\* the board holds the item in, which is the one the last successful
\* update_issue_status wrote; and get_top_priority_todo_issue, when its
\* command succeeds, returns the item that the board holds in ToDo.
C30_BoardStatusReadBack ==
    (provider = "github" /\ raised = NoException) =>
        /\ (/\ \/ lastOp.name = "get_issue" /\ lastOp.arg = <<ItemNumber>>
               \/ lastOp.name = "get_issues" /\ lastOp.arg = <<None>>
            /\ answer.issues /= <<>>)
           => answer.issues[1].project_status = boardStatus
        /\ (/\ lastOp.name = "get_top_priority_todo_issue"
            /\ boardStatus = "ToDo"
            /\ \A i \in 1..Len(cmds) : cmds[i].ok)
           => /\ answer.issues /= <<>>
              /\ answer.issues[1].project_status = "ToDo"

\* the stages of the pipeline in order: the members of WorkflowStatus
PipelineOrder == <<TODO, DOING, REVIEW, TESTING, DONE>>

\* the place of a board status in that order
RankOf(status) == CHOOSE i \in 1..Len(PipelineOrder) : PipelineOrder[i] = status

\* the status the successful update_issue_status calls of the last operation
\* wrote
StatusesWritten ==
    {StatusUpdates[i].arg[1] : i \in {j \in 1..Len(StatusUpdates) : StatusUpdates[j].res.success}}

\* C31: from an item in ToDo with no assignment label, whatever coordinator
\* operations and triggers run and whichever of their commands fail, an
\* operation leaves the board status where it was or at the next stage of
\* ToDo, Doing, Review, Testing, Done, never at an earlier one; the status a
\* successful update_issue_status wrote is the status the operation leaves;
\* an item in Done stays in Done.
C31_StatusNeverMovesBack ==
    [][ /\ RankOf(boardStatus') \in {RankOf(boardStatus), RankOf(boardStatus) + 1}
        /\ StatusesWritten' \subseteq {boardStatus'}
        /\ StatusesWritten' = {} => boardStatus' = boardStatus
        /\ boardStatus = DONE => boardStatus' = DONE ]_vars

\* complete-tester has moved the item from Testing to Done, and a retry of it
\* has written Done again
C31_Witness ==
    /\ Ran("complete_tester_workflow")
    /\ StatusesWritten = {DONE}
    /\ boardStatus = DONE
    /\ Len(prs) = 2

\* the three roles of the pipeline
PipelineRoles == {AI_CODER, AI_REVIEWER, AI_TESTER}

\* C32: from an item in ToDo with no assignment label, after every operation
\* of a sequence in which no command fails, the board status and the
\* assignment agree: in Doing the assigned role is ai-coder, in Review
\* ai-reviewer, in Testing ai-tester, and in Done no label assigns the item
\* to ai-coder, ai-reviewer or ai-tester.
C32_StatusAndAssignmentAgree ==
    /\ boardStatus = DOING => GetAssignedAi(labels) = AI_CODER
    /\ boardStatus = REVIEW => GetAssignedAi(labels) = AI_REVIEWER
    /\ boardStatus = TESTING => GetAssignedAi(labels) = AI_TESTER
    /\ boardStatus = DONE =>
        \A i \in 1..Len(labels) :
            ~(labels[i].kind = "assigned" /\ labels[i].name \in PipelineRoles)

\* C33: from an item in ToDo with no assignment label, on a board that shows
\* its status, when the four pipeline operations are retried for ever and
\* commands fail only finitely often, the item reaches Done.
C33_EventuallyDone ==
    (provider = "board" /\ ProjectNumberConfigured(config)) => <>(boardStatus = DONE)

\* C34: whatever operations run on the work item, retries of complete-tester
\* after a failed status update or label removal included, at most one pull
\* request is created for it.
C34_AtMostOnePullRequest == Len(prs) <= 1

\* C35: the head branch complete-tester passes to create_pr is the branch
\* start-coder created and returned for the item, whose number, title and
\* type labels no operation changes, also when the item carries two type
\* labels (bug and feature).
C35_SameBranchName ==
    branches /= {} => \A i \in 1..Len(prs) : prs[i].head \in branches

\* the coordinators whose start_coder_workflow has returned success
Started == {i \in Coordinators : runs.of[i].pc = "return" /\ runs.of[i].res.success}

\* how many branches the two coordinators have created
BranchesCreated == Cardinality(runs.of[1].made) + Cardinality(runs.of[2].made)

\* C36: when two coordinators run start-coder on the same ToDo item with
\* their manager calls interleaved in any order, at most one of them returns
\* success and at most one branch is created for the item.
C36_AtMostOneStarts ==
    /\ Cardinality(Started) <= 1
    /\ BranchesCreated <= 1

====
